---- MODULE Spec2Model ----
(***************************************************************************)
(* A model of the change gate (ChangeDetector), of the matcher and the     *)
(* enrollment (BiometricAuthenticator), of the ExpressionAnalyzer, of the  *)
(* DepthMapper, of the ratios, proportions and symmetry scores of the      *)
(* LandmarkAnalyzer and the GeometryAnalyzer, and of the MeshGenerator of  *)
(* the secure-biometric repository.                                        *)
(*                                                                         *)
(* Real numbers are rationals <<n, d>> with d > 0, kept in lowest terms,   *)
(* so that every comparison with a threshold is exact.  Time is counted in *)
(* ticks of a quarter of a second.  A landmark array is named by an        *)
(* identifier; Face(id) gives the pixel coordinates of the rows the gate   *)
(* reads.                                                                  *)
(***************************************************************************)
EXTENDS Integers, Sequences, FiniteSets, TLC

VARIABLES
  thresholds,      \* ChangeDetector.thresholds
  last_landmarks,  \* ChangeDetector.last_landmarks (a face id or None)
  last_pose,       \* ChangeDetector.last_pose (a pose id or None)
  last_save_time,  \* ChangeDetector.last_save_time (<<>> or <<tick>>)
  frame_count,     \* ChangeDetector.frame_count
  now,             \* the wall clock read by datetime.now()
  call,            \* the last should_save_frame call: arguments and result
  first_obs_time,  \* history: the time of the gate's first observation
  all_quiet,       \* history: no observation after the first differed from
                   \* the last admitted one beyond a threshold
  last_admitted,   \* history: the landmarks and pose of the last call that
                   \* returned True
  profile,         \* the profile handed to verify_biometric
  current_data,    \* the live feature set handed to verify_biometric
  live_dtype,      \* the number type of the live values: float or float64
  result,          \* what verify_biometric returned (or raised)
  session_data,    \* the session handed to create_biometric_profile
  enrolled,        \* what create_biometric_profile returned (or raised)
  neutral_threshold,   \* ExpressionAnalyzer.neutral_threshold
  analyzer_previous_landmarks,  \* ExpressionAnalyzer.previous_landmarks
                                \* (a landmark set id or None)
  features,        \* the ExpressionFeatures analyze_expression returned
  observations,    \* history: the landmark sets analysed so far, in order
  image_size,      \* DepthMapper.image_width, DepthMapper.image_height
  depth_args,      \* the arguments of create_depth_map
  depth_map,       \* DepthMapper.depth_map (<<>> is None)
  ratios,          \* the last calculate_ratios call: argument and outcome
  proportions,     \* the last calculate_proportions call
  symmetry,        \* the last analyze_symmetry call
  mesh,            \* MeshGenerator.mesh (a mesh id, <<>> is None)
  mesh_metrics     \* what calculate_mesh_metrics returned

gate_vars == <<thresholds, last_landmarks, last_pose, last_save_time,
               frame_count, now, call, first_obs_time, all_quiet,
               last_admitted>>
auth_vars == <<profile, current_data, live_dtype, result>>
enroll_vars == <<session_data, enrolled>>
expr_vars == <<neutral_threshold, analyzer_previous_landmarks, features,
               observations>>
depth_vars == <<image_size, depth_args, depth_map>>
engine_vars == <<ratios, proportions, symmetry>>
mesh_vars == <<mesh, mesh_metrics>>
vars == <<thresholds, last_landmarks, last_pose, last_save_time, frame_count,
          now, call, first_obs_time, all_quiet, last_admitted, profile,
          current_data,
          live_dtype, result, session_data, enrolled, neutral_threshold,
          analyzer_previous_landmarks, features, observations, image_size,
          depth_args, depth_map, ratios, proportions, symmetry, mesh,
          mesh_metrics>>

\* ------------------------------------------------------------ bounds
MaxTime == 4
MaxFrames == 2

\* ------------------------------------------------------------ rationals
Abs(x) == IF x < 0 THEN -x ELSE x

RECURSIVE Gcd(_, _)
Gcd(a, b) == IF b = 0 THEN a ELSE Gcd(b, a % b)

\* a / b in lowest terms with a positive denominator (b # 0)
Frac(a, b) ==
  LET g == Gcd(Abs(a), Abs(b))
      s == IF b < 0 THEN -1 ELSE 1
  IN  <<(s * a) \div g, (s * b) \div g>>

R(n) == <<n, 1>>
Zero == <<0, 1>>
One == <<1, 1>>
Inf == <<1, 0>>    \* float('inf')

RAdd(a, b) == Frac(a[1] * b[2] + b[1] * a[2], a[2] * b[2])
RSub(a, b) == Frac(a[1] * b[2] - b[1] * a[2], a[2] * b[2])
RMul(a, b) == Frac(a[1] * b[1], a[2] * b[2])
RDiv(a, b) == Frac(a[1] * b[2], a[2] * b[1])
RAbs(a) == <<Abs(a[1]), a[2]>>
RLt(a, b) == IF a = Inf THEN FALSE
             ELSE IF b = Inf THEN TRUE
             ELSE a[1] * b[2] < b[1] * a[2]
RGt(a, b) == RLt(b, a)
RLe(a, b) == ~RLt(b, a)
RGe(a, b) == ~RLt(a, b)
RMax(a, b) == IF RGt(b, a) THEN b ELSE a

RECURSIVE RSum(_)
RSum(s) == IF s = <<>> THEN Zero ELSE RAdd(Head(s), RSum(Tail(s)))

\* np.mean of a non-empty sequence of rationals
RMean(s) == RDiv(RSum(s), R(Len(s)))

\* the integer square root (floor), by bisection; 46340^2 < 2^31
RECURSIVE ISqrtIn(_, _, _)
ISqrtIn(x, lo, hi) ==
  IF lo = hi THEN lo
  ELSE LET mid == (lo + hi + 1) \div 2
       IN  IF mid * mid <= x THEN ISqrtIn(x, mid, hi)
           ELSE ISqrtIn(x, lo, mid - 1)
ISqrt(x) == ISqrtIn(x, 0, IF x < 46340 THEN x ELSE 46340)

None == "None"
NoTime == <<>>

\* ------------------------------------------------------------ gate inputs
\* The rows of the landmark array the gate reads by index (the eye, mouth
\* and eyebrow rows) and two contour rows (10, 152) that span the face box.
Idx == {10, 13, 14, 27, 33, 52, 78, 133, 144, 152, 153, 158, 160, 257, 282, 308}

\* Pixel coordinates <<x, y>>.  Box 21 x 28 (diagonal 35), eye 8 wide and 4
\* high, mouth 10 wide and 2 high.
BaseFace ==
  (10 :> <<10, 0>>) @@ (152 :> <<10, 28>>) @@
  (33 :> <<0, 10>>) @@ (160 :> <<2, 8>>) @@ (158 :> <<6, 8>>) @@
  (133 :> <<8, 10>>) @@ (153 :> <<6, 12>>) @@ (144 :> <<2, 12>>) @@
  (13 :> <<10, 19>>) @@ (14 :> <<10, 21>>) @@
  (78 :> <<5, 20>>) @@ (308 :> <<15, 20>>) @@
  (282 :> <<21, 4>>) @@ (257 :> <<21, 7>>) @@
  (52 :> <<4, 4>>) @@ (27 :> <<4, 7>>)

ShiftX(f, dx) == [i \in DOMAIN f |-> <<f[i][1] + dx, f[i][2]>>]
MoveTo(f, i, x) == [f EXCEPT ![i] = <<x, f[i][2]>>]

FaceIds == {"F0", "F1", "F2", "F3", "F4", "F5"}

\* Every face differs from every other by displacements along x only, so the
\* norms below are exact integers.
Face(id) ==
  CASE id = "F0" -> BaseFace
    [] id = "F1" -> ShiftX(BaseFace, 2)                     \* moved by 2/35
    [] id = "F2" -> ShiftX(BaseFace, 4)                     \* moved by 4/35
    [] id = "F3" -> MoveTo(MoveTo(BaseFace, 78, 8), 308, 13) \* mouth 5 wide
    [] id = "F4" -> MoveTo(MoveTo(BaseFace, 78, 8), 308, 12) \* mouth 4 wide
    [] id = "F5" -> MoveTo(BaseFace, 133, 4)                \* eye 4 wide

PoseIds == {"P0", "P1", "P2"}
PoseOrNone == PoseIds \cup {None}

\* head poses in degrees
Pose(id) ==
  CASE id = "P0" -> [pitch |-> 0, yaw |-> 0, roll |-> 0]
    [] id = "P1" -> [pitch |-> 15, yaw |-> 0, roll |-> 0]
    [] id = "P2" -> [pitch |-> 0, yaw |-> 30, roll |-> -16]

Axes == {"pitch", "yaw", "roll"}

\* The thresholds of config/settings.py (MIN_FRAME_INTERVAL 0.5 s = 2 ticks),
\* with the capacity ceiling left to the configuration.
Settings(cap) ==
  [ MIN_FRAME_INTERVAL |-> 2,
    MAX_STORED_FRAMES |-> cap,
    LANDMARK_CHANGE_THRESHOLD |-> Frac(1, 10),
    EXPRESSION_METRICS |-> [mouth_aspect_ratio |-> Frac(1, 5),
                            eye_aspect_ratio |-> Frac(3, 20),
                            eyebrow_position |-> Frac(1, 10)],
    HEAD_POSE_THRESHOLD |-> [pitch |-> 15, yaw |-> 15, roll |-> 15] ]

\* Other configurations a caller may pass: one whose landmark threshold is
\* exactly the displacement of F1 from F0 and whose interval is one tick, and
\* one so loose that nothing but the first frame is significant.
Sensitive(cap) ==
  [ MIN_FRAME_INTERVAL |-> 1,
    MAX_STORED_FRAMES |-> cap,
    LANDMARK_CHANGE_THRESHOLD |-> Frac(2, 35),
    EXPRESSION_METRICS |-> [mouth_aspect_ratio |-> Frac(1, 5)],
    HEAD_POSE_THRESHOLD |-> [pitch |-> 15, yaw |-> 40, roll |-> 15] ]

Loose(cap) ==
  [ MIN_FRAME_INTERVAL |-> 0,
    MAX_STORED_FRAMES |-> cap,
    LANDMARK_CHANGE_THRESHOLD |-> R(10),
    EXPRESSION_METRICS |-> [mouth_aspect_ratio |-> R(10),
                            jaw_drop |-> Zero],
    HEAD_POSE_THRESHOLD |-> [pitch |-> 360, yaw |-> 360, roll |-> 360] ]

ThresholdSets ==
  {Settings(MaxFrames), Sensitive(MaxFrames), Sensitive(1), Loose(1), Loose(0)}

\* the thresholds should_save_frame looks up, and the axes of line 114 in
\* their order
RequiredThresholds ==
  {"MIN_FRAME_INTERVAL", "MAX_STORED_FRAMES", "LANDMARK_CHANGE_THRESHOLD",
   "EXPRESSION_METRICS", "HEAD_POSE_THRESHOLD"}

PoseAxisOrder == <<"pitch", "yaw", "roll">>

\* the dictionary d without key k
Without(d, k) == [j \in DOMAIN d \ {k} |-> d[j]]

\* configurations that lack one required threshold, or one axis of
\* HEAD_POSE_THRESHOLD
IncompleteThresholdSets ==
  {Without(Settings(MaxFrames), k) : k \in RequiredThresholds}
    \cup {[Settings(MaxFrames) EXCEPT
             !.HEAD_POSE_THRESHOLD = Without(@, PoseAxisOrder[n])] : n \in 1..3}

\* the configuration t has every required threshold
Complete(t) ==
  /\ RequiredThresholds \subseteq DOMAIN t
  /\ Axes \subseteq DOMAIN t.HEAD_POSE_THRESHOLD

\* ------------------------------------------------------------ the gate
\* np.linalg.norm of a pixel vector
Norm(v) == ISqrt(v[1] * v[1] + v[2] * v[2])

Sub(p, q) == <<p[1] - q[1], p[2] - q[2]>>

RECURSIVE SetSum(_, _)
SetSum(f, S) ==
  IF S = {} THEN 0
  ELSE LET i == CHOOSE j \in S : TRUE IN f[i] + SetSum(f, S \ {i})

SetMax(S) == CHOOSE m \in S : \A k \in S : k <= m
SetMin(S) == CHOOSE m \in S : \A k \in S : m <= k

\* calculate_landmark_change: mean displacement over the box diagonal
calculate_landmark_change(current_landmarks, previous_landmarks) ==
  IF previous_landmarks = None THEN Inf
  ELSE
    LET cur == Face(current_landmarks)
        prev == Face(previous_landmarks)
        distances == [i \in Idx |-> Norm(Sub(cur[i], prev[i]))]
        xs == {cur[i][1] : i \in Idx}
        ys == {cur[i][2] : i \in Idx}
        face_size == Norm(<<SetMax(xs) - SetMin(xs), SetMax(ys) - SetMin(ys)>>)
    IN  IF face_size > 0
        THEN Frac(SetSum(distances, Idx), Cardinality(Idx) * face_size)
        ELSE Zero

\* eye_aspect_ratio over the rows [33, 160, 158, 133, 153, 144]
eye_aspect_ratio(lm) ==
  LET vertical2 == Norm(Sub(lm[160], lm[144])) + Norm(Sub(lm[158], lm[153]))
      horizontal == Norm(Sub(lm[33], lm[133]))
  IN  IF horizontal > 0 THEN Frac(vertical2, 4 * horizontal) ELSE Zero

mouth_aspect_ratio(lm) ==
  LET vertical == Norm(Sub(lm[13], lm[14]))
      horizontal == Norm(Sub(lm[78], lm[308]))
  IN  IF horizontal > 0 THEN Frac(vertical, horizontal) ELSE Zero

eyebrow_position(lm) ==
  Frac((lm[282][2] - lm[257][2]) + (lm[52][2] - lm[27][2]), 2)

calculate_expression_change(current_landmarks, previous_landmarks) ==
  IF previous_landmarks = None THEN [inf |-> Inf]
  ELSE
    LET cur == Face(current_landmarks)
        prev == Face(previous_landmarks)
    IN  [ eye_aspect_ratio |->
            RAbs(RSub(eye_aspect_ratio(cur), eye_aspect_ratio(prev))),
          mouth_aspect_ratio |->
            RAbs(RSub(mouth_aspect_ratio(cur), mouth_aspect_ratio(prev))),
          eyebrow_position |->
            RDiv(RAbs(RSub(eyebrow_position(cur), eyebrow_position(prev))),
                 R(100)) ]

\* dict.get(k, default)
Get(d, k, default) == IF k \in DOMAIN d THEN d[k] ELSE default

\* The two functions above, tabulated once over the faces of the model.
LandmarkChange ==
  [c \in FaceIds, p \in FaceIds \cup {None} |-> calculate_landmark_change(c, p)]
ExpressionChange ==
  [c \in FaceIds, p \in FaceIds \cup {None} |-> calculate_expression_change(c, p)]

\* a rate limit that truncates the interval (timedelta.seconds for
\* total_seconds())
rate_limited_truncated(current_time) ==
  /\ last_save_time # NoTime
  /\ current_time - last_save_time[1] < thresholds.MIN_FRAME_INTERVAL - 1

\* lines 80-83: the rate limit
rate_limited(current_time) ==
  /\ last_save_time # NoTime
  /\ current_time - last_save_time[1] < thresholds.MIN_FRAME_INTERVAL

\* a ceiling that is off by one (> for >=)
at_capacity_off_by_one == frame_count > thresholds.MAX_STORED_FRAMES

\* lines 86-87: the capacity ceiling
at_capacity == frame_count >= thresholds.MAX_STORED_FRAMES

\* an expression trigger that fires at its threshold (>= for >)
expression_changed_ge(landmarks_array) ==
  IF last_landmarks # None
  THEN LET expression_changes == ExpressionChange[landmarks_array, last_landmarks]
       IN  \E k \in DOMAIN thresholds.EXPRESSION_METRICS :
             RGe(RAbs(Get(expression_changes, k, Zero)),
                 Get(thresholds.EXPRESSION_METRICS, k, Inf))
  ELSE TRUE

\* lines 96-107
expression_changed(landmarks_array) ==
  IF last_landmarks # None
  THEN LET expression_changes == ExpressionChange[landmarks_array, last_landmarks]
       IN  \E k \in DOMAIN thresholds.EXPRESSION_METRICS :
             RGt(RAbs(Get(expression_changes, k, Zero)),
                 Get(thresholds.EXPRESSION_METRICS, k, Inf))
  ELSE TRUE

\* a pose trigger that takes an absent last pose for a change
pose_changed_absent(head_pose) ==
  /\ head_pose # None
  /\ \/ last_pose = None
     \/ \E k \in Axes :
          Abs(Pose(head_pose)[k] - Pose(last_pose)[k])
            > thresholds.HEAD_POSE_THRESHOLD[k]

\* lines 110-119
pose_changed(head_pose) ==
  /\ last_pose # None
  /\ head_pose # None
  /\ LET pose_changes ==
           [k \in Axes |-> Abs(Pose(head_pose)[k] - Pose(last_pose)[k])]
     IN  \E k \in Axes \cap DOMAIN thresholds.HEAD_POSE_THRESHOLD :
           pose_changes[k] > thresholds.HEAD_POSE_THRESHOLD[k]

\* line 117: the axis whose threshold lookup raises KeyError, or None; any()
\* stops at the first axis beyond its threshold
PoseKeyError(head_pose) ==
  LET t == thresholds.HEAD_POSE_THRESHOLD
      change(k) == Abs(Pose(head_pose)[k] - Pose(last_pose)[k])
      missing ==
        {n \in 1..3 :
           /\ PoseAxisOrder[n] \notin DOMAIN t
           /\ \A m \in 1..(n - 1) :
                /\ PoseAxisOrder[m] \in DOMAIN t
                /\ change(PoseAxisOrder[m]) <= t[PoseAxisOrder[m]]}
  IN  IF missing = {} THEN None
      ELSE PoseAxisOrder[CHOOSE n \in missing : TRUE]

\* The threshold whose lookup raises KeyError in a call made now, or None:
\* lines 82, 86, 103, 117 and 123, each reached only if the call has not
\* returned before.
KeyErrorAt(landmarks_array, head_pose) ==
  LET has(k) == k \in DOMAIN thresholds
      both_poses == last_pose # None /\ head_pose # None
  IN  IF last_save_time # NoTime /\ ~has("MIN_FRAME_INTERVAL")
        THEN "MIN_FRAME_INTERVAL"
      ELSE IF last_save_time # NoTime
                /\ now - last_save_time[1] < thresholds.MIN_FRAME_INTERVAL
        THEN None
      ELSE IF ~has("MAX_STORED_FRAMES") THEN "MAX_STORED_FRAMES"
      ELSE IF frame_count >= thresholds.MAX_STORED_FRAMES THEN None
      ELSE IF last_landmarks # None /\ ~has("EXPRESSION_METRICS")
        THEN "EXPRESSION_METRICS"
      ELSE IF both_poses /\ ~has("HEAD_POSE_THRESHOLD")
        THEN "HEAD_POSE_THRESHOLD"
      ELSE IF both_poses /\ PoseKeyError(head_pose) # None
        THEN PoseKeyError(head_pose)
      ELSE IF ~has("LANDMARK_CHANGE_THRESHOLD") THEN "LANDMARK_CHANGE_THRESHOLD"
      ELSE None

\* the three triggers joined by "and"
should_save_and(landmarks_array, head_pose) ==
  /\ RGt(LandmarkChange[landmarks_array, last_landmarks],
         thresholds.LANDMARK_CHANGE_THRESHOLD)
  /\ pose_changed(head_pose)
  /\ expression_changed(landmarks_array)

\* a landmark trigger that fires at its threshold (>= for >)
should_save_ge(landmarks_array, head_pose) ==
  \/ RGe(LandmarkChange[landmarks_array, last_landmarks],
         thresholds.LANDMARK_CHANGE_THRESHOLD)
  \/ pose_changed(head_pose)
  \/ expression_changed(landmarks_array)

\* lines 90-93 and 122-126
should_save(landmarks_array, head_pose) ==
  \/ RGt(LandmarkChange[landmarks_array, last_landmarks],
         thresholds.LANDMARK_CHANGE_THRESHOLD)
  \/ pose_changed(head_pose)
  \/ expression_changed(landmarks_array)

\* the value should_save_frame returns when called now
Decision(landmarks_array, head_pose) ==
  /\ ~rate_limited(now)
  /\ ~at_capacity
  /\ should_save(landmarks_array, head_pose)

NoCall == [landmarks |-> None, head_pose |-> None, ret |-> FALSE]

\* ChangeDetector.__init__: the thresholds are stored as they are
ChangeDetector(t) ==
  /\ thresholds = t
  /\ last_landmarks = None
  /\ last_pose = None
  /\ last_save_time = NoTime
  /\ frame_count = 0
  /\ now = 0
  /\ call = NoCall
  /\ first_obs_time = NoTime
  /\ all_quiet = TRUE
  /\ last_admitted = [landmarks |-> None, head_pose |-> None]

\* a gate built with a complete configuration
InitGate == \E t \in ThresholdSets : ChangeDetector(t)

\* The observation differs from the last admitted one beyond a threshold:
\* in the mean landmark displacement, in an expression metric the
\* configuration names, or in a pose axis when both poses exist.
BeyondThresholds(landmarks_array, head_pose) ==
  /\ last_landmarks # None
  /\ \/ RGt(LandmarkChange[landmarks_array, last_landmarks],
             thresholds.LANDMARK_CHANGE_THRESHOLD)
     \/ \E k \in DOMAIN thresholds.EXPRESSION_METRICS
               \cap DOMAIN ExpressionChange[landmarks_array, last_landmarks] :
          RGt(ExpressionChange[landmarks_array, last_landmarks][k],
              thresholds.EXPRESSION_METRICS[k])
     \/ /\ last_pose # None
        /\ head_pose # None
        /\ \E k \in Axes :
             Abs(Pose(head_pose)[k] - Pose(last_pose)[k])
               > thresholds.HEAD_POSE_THRESHOLD[k]

\* the history variables of a call
History(landmarks_array, head_pose, ret) ==
  /\ call' = [landmarks |-> landmarks_array, head_pose |-> head_pose,
              ret |-> ret]
  /\ first_obs_time' =
       IF first_obs_time = NoTime THEN <<now>> ELSE first_obs_time
  /\ all_quiet' =
       IF Complete(thresholds)
       THEN (all_quiet /\ (first_obs_time = NoTime
                             \/ ~BeyondThresholds(landmarks_array, head_pose)))
       ELSE all_quiet
  /\ last_admitted' =
       IF ret THEN [landmarks |-> landmarks_array, head_pose |-> head_pose]
       ELSE last_admitted

\* a gate that stamps the time of every call, admitted or not
should_save_frame_restamp(landmarks_array, head_pose) ==
  LET current_time == now
      ret == Decision(landmarks_array, head_pose)
  IN  /\ History(landmarks_array, head_pose, ret)
      /\ IF ret
         THEN /\ last_landmarks' = landmarks_array
              /\ last_pose' = head_pose
              /\ frame_count' = frame_count + 1
         ELSE UNCHANGED <<last_landmarks, last_pose, frame_count>>
      /\ last_save_time' = <<current_time>>
      /\ UNCHANGED <<thresholds, now>>
      /\ UNCHANGED auth_vars
      /\ UNCHANGED enroll_vars
      /\ UNCHANGED expr_vars
      /\ UNCHANGED depth_vars
      /\ UNCHANGED engine_vars
      /\ UNCHANGED mesh_vars

\* a call that raises KeyError(key) leaves the gate as it was
Raise(landmarks_array, head_pose, key) ==
  /\ call' = [landmarks |-> landmarks_array, head_pose |-> head_pose,
              ret |-> FALSE, raised |-> key]
  /\ first_obs_time' =
       IF first_obs_time = NoTime THEN <<now>> ELSE first_obs_time
  /\ UNCHANGED <<last_landmarks, last_pose, last_save_time, frame_count,
                 all_quiet, last_admitted>>

\* a gate that remembers every observation it is shown, admitted or not
should_save_frame_last_seen(landmarks_array, head_pose) ==
  LET current_time == now
      ret == Decision(landmarks_array, head_pose)
  IN  /\ History(landmarks_array, head_pose, ret)
      /\ last_landmarks' = landmarks_array
      /\ last_pose' = head_pose
      /\ IF ret
         THEN /\ last_save_time' = <<current_time>>
              /\ frame_count' = frame_count + 1
         ELSE UNCHANGED <<last_save_time, frame_count>>
      /\ UNCHANGED <<thresholds, now>>
      /\ UNCHANGED auth_vars
      /\ UNCHANGED enroll_vars
      /\ UNCHANGED expr_vars
      /\ UNCHANGED depth_vars
      /\ UNCHANGED engine_vars
      /\ UNCHANGED mesh_vars

\* a gate that stores what it admits and leaves the counting to its caller
should_save_frame_uncounted(landmarks_array, head_pose) ==
  LET current_time == now
      ret == Decision(landmarks_array, head_pose)
  IN  /\ History(landmarks_array, head_pose, ret)
      /\ IF ret
         THEN /\ last_landmarks' = landmarks_array
              /\ last_pose' = head_pose
              /\ last_save_time' = <<current_time>>
         ELSE UNCHANGED <<last_landmarks, last_pose, last_save_time>>
      /\ UNCHANGED <<thresholds, now, frame_count>>
      /\ UNCHANGED auth_vars
      /\ UNCHANGED enroll_vars
      /\ UNCHANGED expr_vars
      /\ UNCHANGED depth_vars
      /\ UNCHANGED engine_vars
      /\ UNCHANGED mesh_vars

\* ChangeDetector.should_save_frame(landmarks_array, head_pose)
should_save_frame(landmarks_array, head_pose) ==
  LET current_time == now
      key == KeyErrorAt(landmarks_array, head_pose)
      ret == Decision(landmarks_array, head_pose)
  IN  /\ IF key # None
         THEN Raise(landmarks_array, head_pose, key)
         ELSE /\ History(landmarks_array, head_pose, ret)
              /\ IF ret
                 THEN /\ last_landmarks' = landmarks_array
                      /\ last_pose' = head_pose
                      /\ last_save_time' = <<current_time>>
                      /\ frame_count' = frame_count + 1
                 ELSE UNCHANGED <<last_landmarks, last_pose, last_save_time,
                                  frame_count>>
      /\ UNCHANGED <<thresholds, now>>
      /\ UNCHANGED auth_vars
      /\ UNCHANGED enroll_vars
      /\ UNCHANGED expr_vars
      /\ UNCHANGED depth_vars
      /\ UNCHANGED engine_vars
      /\ UNCHANGED mesh_vars

\* time passes between two calls (datetime.now() is read once per call)
Tick ==
  /\ now < MaxTime
  /\ now' = now + 1
  /\ UNCHANGED <<thresholds, last_landmarks, last_pose, last_save_time,
                 frame_count, call, first_obs_time, all_quiet,
                 last_admitted>>
  /\ UNCHANGED auth_vars
  /\ UNCHANGED enroll_vars
  /\ UNCHANGED expr_vars
  /\ UNCHANGED depth_vars
  /\ UNCHANGED engine_vars
  /\ UNCHANGED mesh_vars

Observe == \E l \in FaceIds, p \in PoseOrNone : should_save_frame(l, p)

\* the matcher is not used
AuthIdle ==
  /\ profile = [is_none |-> TRUE]
  /\ current_data = [is_none |-> TRUE]
  /\ live_dtype = "float"
  /\ result = [pending |-> TRUE]

\* no profile is being built
EnrollIdle ==
  /\ session_data = [k \in {} |-> <<>>]
  /\ enrolled = [pending |-> TRUE]

\* no expression is being analysed
ExprIdle ==
  /\ neutral_threshold = <<1, 10>>
  /\ analyzer_previous_landmarks = "None"
  /\ features = [pending |-> TRUE]
  /\ observations = <<>>

\* no depth map is being made
DepthIdle ==
  /\ image_size = <<16, 16>>
  /\ depth_args = [landmarks_array |-> <<>>, resolution |-> <<>>]
  /\ depth_map = <<>>

\* no LandmarkAnalyzer or GeometryAnalyzer call has been made
EngineIdle ==
  /\ ratios = [pending |-> TRUE]
  /\ proportions = [pending |-> TRUE]
  /\ symmetry = [pending |-> TRUE]

\* a MeshGenerator right after construction
MeshIdle ==
  /\ mesh = <<>>
  /\ mesh_metrics = [pending |-> TRUE]

NextGate == Observe \/ Tick

\* a gate right after construction
GateInit == InitGate /\ AuthIdle /\ EnrollIdle /\ ExprIdle /\ DepthIdle
  /\ EngineIdle /\ MeshIdle

SpecGate == GateInit /\ [][NextGate]_vars

\* a gate built with any configuration, complete or not
ConfigInit ==
  /\ \E t \in IncompleteThresholdSets \cup {Settings(MaxFrames)} :
       ChangeDetector(t)
  /\ AuthIdle /\ EnrollIdle /\ ExprIdle /\ DepthIdle /\ EngineIdle /\ MeshIdle

SpecConfig == ConfigInit /\ [][NextGate]_vars

\* ------------------------------------------------------------ gate claims
\* a should_save_frame step that changes the state (the clock stands still
\* during a call)
IsCall == now' = now

\* the step is the first call of a newly constructed gate
IsFirstCall == first_obs_time = NoTime /\ first_obs_time' # NoTime

\* C1: on a newly constructed gate whose capacity ceiling is at least 1, the
\* first call admits its observation, whatever the landmarks, the pose
\* (absent or not) and the thresholds are.
C1_FirstObservationAdmitted ==
  [][ (IsFirstCall /\ frame_count = 0 /\ last_landmarks = None
         /\ thresholds.MAX_STORED_FRAMES >= 1)
      => (call'.ret /\ frame_count' = 1) ]_vars

\* the first call of a gate with the loosest thresholds admitted a frame
\* that came without a pose
C1_Witness ==
  /\ thresholds = Loose(1)
  /\ call.ret
  /\ call.head_pose = None
  /\ frame_count = 1
  /\ last_save_time = first_obs_time

\* C2: an observation offered less than MIN_FRAME_INTERVAL after the last
\* admission is rejected whatever it shows; so two admissions are at least
\* MIN_FRAME_INTERVAL apart, and of the observations fed to a new gate within
\* MIN_FRAME_INTERVAL of the first only the first is admitted.
C2_RateLimitOverrides ==
  /\ [][ (IsCall /\ last_save_time # NoTime
            /\ now - last_save_time[1] < thresholds.MIN_FRAME_INTERVAL)
         => (~call'.ret /\ frame_count' = frame_count) ]_vars
  /\ [][ (frame_count' # frame_count /\ last_save_time # NoTime)
         => last_save_time'[1] - last_save_time[1]
              >= thresholds.MIN_FRAME_INTERVAL ]_vars
  /\ [](  (first_obs_time # NoTime /\ thresholds.MAX_STORED_FRAMES >= 1
            /\ now - first_obs_time[1] < thresholds.MIN_FRAME_INTERVAL)
         => (frame_count = 1 /\ last_save_time = first_obs_time) )

\* an observation that differs beyond a threshold, below the capacity
\* ceiling, was rejected because it came too early
C2_Witness ==
  /\ call # NoCall
  /\ ~call.ret
  /\ last_save_time # NoTime
  /\ now - last_save_time[1] < thresholds.MIN_FRAME_INTERVAL
  /\ ~at_capacity
  /\ RGt(LandmarkChange[call.landmarks, last_landmarks],
         thresholds.LANDMARK_CHANGE_THRESHOLD)

\* C3: while no observation after the first differs from the last admitted
\* one beyond a threshold, the gate (capacity ceiling at least 1) has
\* admitted exactly one frame, the first, however the observations are
\* spaced in time.
C3_QuietStreamAdmitsOne ==
  (first_obs_time # NoTime /\ all_quiet /\ thresholds.MAX_STORED_FRAMES >= 1)
    => (frame_count = 1 /\ last_save_time = first_obs_time)

\* a different face that stays within every threshold was offered well
\* after the interval had passed, and was not admitted
C3_Witness ==
  /\ all_quiet
  /\ frame_count = 1
  /\ ~call.ret
  /\ call.landmarks # last_landmarks
  /\ call.head_pose # last_pose
  /\ thresholds.MAX_STORED_FRAMES > 1
  /\ now - last_save_time[1] > thresholds.MIN_FRAME_INTERVAL

\* C4: frame_count never exceeds MAX_STORED_FRAMES, and once it equals
\* MAX_STORED_FRAMES every further observation is rejected.
C4_CapacityCeiling ==
  /\ [](frame_count <= thresholds.MAX_STORED_FRAMES)
  /\ [][ (IsCall /\ frame_count = thresholds.MAX_STORED_FRAMES)
         => (~call'.ret /\ frame_count' = frame_count) ]_vars

\* a full gate rejected an observation that differs beyond a threshold and
\* came after the interval had passed
C4_Witness ==
  /\ frame_count = thresholds.MAX_STORED_FRAMES
  /\ frame_count = MaxFrames
  /\ ~call.ret
  /\ ~rate_limited(now)
  /\ RGt(LandmarkChange[call.landmarks, last_landmarks],
         thresholds.LANDMARK_CHANGE_THRESHOLD)

\* C5: an observation that passes the rate limit and the capacity check is
\* admitted if and only if the landmark displacement (infinite when nothing
\* was admitted before) is strictly greater than LANDMARK_CHANGE_THRESHOLD,
\* or a pose axis delta is strictly greater than its HEAD_POSE_THRESHOLD, or
\* an expression-metric delta is strictly greater than its threshold.
C5_AdmitIffStrictlyBeyond ==
  [][ (IsCall /\ ~rate_limited(now) /\ ~at_capacity)
      => (call'.ret <=>
            (last_landmarks = None
               \/ BeyondThresholds(call'.landmarks, call'.head_pose))) ]_vars

\* with the thresholds of settings.py, an observation whose mouth ratio and
\* pitch differ from the last admitted ones by exactly their thresholds
\* (0.2 and 15 degrees) passed both checks and was rejected
C5_Witness ==
  /\ thresholds = Settings(MaxFrames)
  /\ last_landmarks = "F0" /\ last_pose = "P0"
  /\ call = [landmarks |-> "F3", head_pose |-> "P1", ret |-> FALSE]
  /\ ~rate_limited(now)
  /\ ~at_capacity
  /\ ExpressionChange["F3", "F0"].mouth_aspect_ratio
       = thresholds.EXPRESSION_METRICS.mouth_aspect_ratio
  /\ Pose("P1").pitch - Pose("P0").pitch = thresholds.HEAD_POSE_THRESHOLD.pitch

\* C6: an admission replaces last_landmarks, last_pose and last_save_time by
\* the observation's values and adds 1 to frame_count; a rejection changes
\* none of the four (so it does not restart the interval); nothing else
\* changes them.
C6_AdmissionEffect ==
  [][ /\ (IsCall /\ call'.ret)
          => /\ last_landmarks' = call'.landmarks
             /\ last_pose' = call'.head_pose
             /\ last_save_time' = <<now>>
             /\ frame_count' = frame_count + 1
      /\ ~(IsCall /\ call'.ret)
          => UNCHANGED <<last_landmarks, last_pose, last_save_time,
                         frame_count>> ]_vars

\* an armed gate rejected a different observation some time after its last
\* admission and kept what it had stored
C6_Witness ==
  /\ frame_count >= 1
  /\ call # NoCall
  /\ ~call.ret
  /\ call.landmarks # last_landmarks
  /\ call.head_pose # last_pose
  /\ last_save_time[1] < now

\* ------------------------------------------------------------ the matcher
\* A dict is a function on its keys; None, where a dict is expected, is
\* NoneObj.  A colour is the record of its B, G and R channels.
NoneObj == [is_none |-> TRUE]
EmptyDict == [k \in {} |-> Zero]

\* the truth value Python gives an optional dict
Falsy(x) == x = NoneObj \/ DOMAIN x = {}

\* dict.get(k) on a dict of dicts
DictGet(d, k) == IF k \in DOMAIN d THEN d[k] ELSE NoneObj

\* BiometricAuthenticator.__init__: the default tolerances
tolerance_thresholds ==
  [ eye_distance |-> Frac(1, 10),
    mouth_width |-> Frac(15, 100),
    nose_to_chin |-> Frac(1, 10),
    width_ratio_temple_jaw |-> Frac(5, 100),
    width_ratio_cheek_jaw |-> Frac(5, 100),
    height_ratio_nose_face |-> Frac(5, 100),
    face_width_height_ratio |-> Frac(5, 100),
    nose_angle |-> R(5),
    left_eye_angle |-> R(5),
    right_eye_angle |-> R(5),
    mouth_symmetry_angle |-> R(5),
    pitch |-> R(15),
    yaw |-> R(15),
    roll |-> R(15),
    color_tolerance |-> R(25) ]

\* The order in which a geometry dict lists its keys (Python dicts keep the
\* insertion order, and every frame lists its metrics in the same order).
MetricOrder == <<"eye_distance", "face_width_height_ratio", "nose_angle">>
AxisOrder == <<"pitch", "yaw", "roll">>
Channels == {"b", "g", "r"}

\* the keys of d, in order
Keys(order, d) == SelectSeq(order, LAMBDA k : k \in DOMAIN d)

\* the statistics create_biometric_profile stores for a metric seen once
Stat(mean) == [mean |-> mean, std |-> Zero, min |-> mean, max |-> mean]
PoseStat(mean) == [mean |-> mean, std |-> Zero, range |-> Zero]

\* dict(zip(keys, values))
ZipDict(keys, values) ==
  LET n == IF Len(keys) < Len(values) THEN Len(keys) ELSE Len(values)
  IN  [k \in {keys[i] : i \in 1..n} |->
         values[CHOOSE i \in 1..n : keys[i] = k]]

\* sqrt of a rational: exact when it is rational, otherwise rounded down to
\* 1/scale
RSqrt(q, scale) ==
  LET rn == ISqrt(q[1])
      rd == ISqrt(q[2])
  IN  IF rn * rn = q[1] /\ rd * rd = q[2]
      THEN Frac(rn, rd)
      ELSE Frac(ISqrt((q[1] * scale * scale) \div q[2]), scale)

\* a match score that takes the tolerance as an absolute difference
geometry_match_score_abs(current_value, mean, threshold) ==
  LET diff == RAbs(RSub(current_value, mean))
  IN  RMax(Zero, RSub(One, RDiv(diff, threshold)))

\* lines 136-140: the match score of one geometry metric.  A zero
\* max_allowed_diff divides by zero: with numpy.float64 operands the quotient
\* is inf or nan and max(0.0, .) gives 0.0; with Python floats the division
\* raises (see GeometryRaises).
geometry_match_score(current_value, mean, threshold) ==
  LET diff == RAbs(RSub(current_value, mean))
      max_allowed_diff == RMul(mean, threshold)
  IN  IF max_allowed_diff = Zero
      THEN Zero
      ELSE RMax(Zero, RSub(One, RDiv(diff, max_allowed_diff)))

\* line 140 raises ZeroDivisionError
GeometryRaises(profile_geometry, current_geometry) ==
  /\ live_dtype = "float"
  /\ \E metric \in DOMAIN profile_geometry \cap DOMAIN current_geometry :
       RMul(profile_geometry[metric].mean,
            Get(tolerance_thresholds, metric, Frac(1, 10))) = Zero

\* BiometricAuthenticator._verify_geometry
_verify_geometry(profile_geometry, current_geometry) ==
  IF Falsy(profile_geometry) \/ Falsy(current_geometry)
  THEN [match_score |-> Zero, error |-> "Missing geometry data"]
  ELSE IF GeometryRaises(profile_geometry, current_geometry)
  THEN [raised |-> "ZeroDivisionError"]
  ELSE
    LET keys == Keys(MetricOrder, profile_geometry)
        compared == SelectSeq(keys, LAMBDA m : m \in DOMAIN current_geometry)
        matches ==
          [i \in 1..Len(compared) |->
             geometry_match_score(
               current_geometry[compared[i]],
               profile_geometry[compared[i]].mean,
               Get(tolerance_thresholds, compared[i], Frac(1, 10)))]
    IN  [ match_score |-> IF matches # <<>> THEN RMean(matches) ELSE Zero,
          metric_scores |-> ZipDict(keys, matches) ]

\* BiometricAuthenticator._verify_pose
_verify_pose(profile_pose, current_pose) ==
  IF Falsy(profile_pose) \/ Falsy(current_pose)
  THEN [match_score |-> Zero, error |-> "Missing pose data"]
  ELSE
    LET compared ==
          SelectSeq(AxisOrder,
                    LAMBDA a : a \in DOMAIN current_pose
                               /\ a \in DOMAIN profile_pose)
        matches ==
          [i \in 1..Len(compared) |->
             LET threshold == tolerance_thresholds[compared[i]]
                 diff == RAbs(RSub(current_pose[compared[i]],
                                   profile_pose[compared[i]].mean))
             IN  RMax(Zero, RSub(One, RDiv(diff, threshold)))]
    IN  [ match_score |-> IF matches # <<>> THEN RMean(matches) ELSE Zero,
          axis_scores |-> ZipDict(AxisOrder, matches) ]

\* BiometricAuthenticator._verify_color.  color_diff / (threshold * sqrt(3))
\* is computed as sqrt(|d|^2 / (3 * threshold^2)).
_verify_color(profile_color, current_color) ==
  IF Falsy(profile_color) \/ Falsy(current_color)
  THEN [match_score |-> Zero, error |-> "Missing color data"]
  ELSE
    LET threshold == tolerance_thresholds.color_tolerance
        d == [c \in Channels |-> RSub(current_color[c], profile_color.mean[c])]
        sq == RAdd(RMul(d.b, d.b), RAdd(RMul(d.g, d.g), RMul(d.r, d.r)))
        ratio == RDiv(sq, RMul(R(3), RMul(threshold, threshold)))
    IN  [ match_score |->
            IF RGe(ratio, One) THEN Zero
            ELSE RMax(Zero, RSub(One, RSqrt(ratio, 1000))),
          color_difference |-> RSqrt(sq, 100) ]

\* a verify_biometric that scores missing data like any other mismatch
verify_biometric_scored(profile_, current_data_) ==
  LET results ==
        [ geometry |-> _verify_geometry(DictGet(profile_, "geometry"),
                                        DictGet(current_data_, "geometry")),
          pose |-> _verify_pose(DictGet(profile_, "pose"),
                                DictGet(current_data_, "pose")),
          color |-> _verify_color(DictGet(profile_, "color"),
                                  DictGet(current_data_, "color")) ]
      match_scores == <<results.geometry.match_score,
                        results.pose.match_score,
                        results.color.match_score>>
      overall_score == RMean(match_scores)
  IN  [ accept |-> RGe(overall_score, Frac(8, 10)),
        info |-> [overall_score |-> overall_score, details |-> results] ]

\* a verify_biometric that accepts only above the decision threshold
verify_biometric_strict(profile_, current_data_) ==
  LET r == verify_biometric_scored(profile_, current_data_)
      results == r.info.details
  IN  IF Falsy(profile_) \/ Falsy(current_data_)
      THEN [ accept |-> FALSE,
             info |-> [error |-> "Missing profile or current data"] ]
      ELSE IF "raised" \in DOMAIN results.geometry
      THEN results.geometry
      ELSE [ accept |-> RGt(r.info.overall_score, Frac(8, 10)),
             info |-> r.info ]

\* BiometricAuthenticator.verify_biometric: what it returns, or that it
\* raised
verify_biometric(profile_, current_data_) ==
  IF Falsy(profile_) \/ Falsy(current_data_)
  THEN [ accept |-> FALSE,
         info |-> [error |-> "Missing profile or current data"] ]
  ELSE
    LET results ==
          [ geometry |-> _verify_geometry(DictGet(profile_, "geometry"),
                                          DictGet(current_data_, "geometry")),
            pose |-> _verify_pose(DictGet(profile_, "pose"),
                                  DictGet(current_data_, "pose")),
            color |-> _verify_color(DictGet(profile_, "color"),
                                    DictGet(current_data_, "color")) ]
        categories == <<"geometry", "pose", "color">>
        scored == SelectSeq(categories,
                            LAMBDA c : "match_score" \in DOMAIN results[c])
        match_scores == [i \in 1..Len(scored) |-> results[scored[i]].match_score]
        overall_score == IF match_scores # <<>> THEN RMean(match_scores)
                         ELSE Zero
    IN  IF "raised" \in DOMAIN results.geometry
        THEN results.geometry
        ELSE [ accept |-> RGe(overall_score, Frac(8, 10)),
               info |-> [overall_score |-> overall_score,
                         details |-> results] ]

\* ------------------------------------------------------------ matcher inputs
\* a dict with the keys of S that have a value
Dict(S, value) == [k \in {m \in S : value[m] # <<>>} |-> value[k][1]]

\* the values a metric may take, <<>> for a metric that is not there
Optional(S) == {<<>>} \cup {<<v>> : v \in S}

Metrics == {"eye_distance", "face_width_height_ratio", "nose_angle"}

\* profile means: a distance, a ratio, and an angle that is 0 or negative
ProfileGeometries ==
  { Dict(Metrics, [eye_distance |-> <<Stat(R(100))>>,
                   face_width_height_ratio |-> <<Stat(Frac(13, 10))>>,
                   nose_angle |-> a])
    : a \in Optional({Stat(Zero), Stat(R(-4))}) }

ProfilePose ==
  [pitch |-> PoseStat(Zero), yaw |-> PoseStat(R(10)), roll |-> PoseStat(R(-5))]

ProfileColor ==
  [ mean |-> [b |-> R(100), g |-> R(120), r |-> R(140)],
    std |-> [b |-> Zero, g |-> Zero, r |-> Zero] ]

\* stored profiles: every section or the geometry alone, and no profile
Profiles ==
  {NoneObj, EmptyDict}
  \cup {[geometry |-> g, pose |-> ProfilePose, color |-> ProfileColor]
         : g \in ProfileGeometries}
  \cup {[geometry |-> g, pose |-> NoneObj, color |-> NoneObj]
         : g \in ProfileGeometries}

LiveGeometries ==
  { Dict(Metrics, [eye_distance |-> e, face_width_height_ratio |-> w,
                   nose_angle |-> a])
    : e \in Optional({R(100), R(105), R(150)}),
      w \in Optional({Frac(13, 10), Frac(135, 100), R(2)}),
      a \in Optional({Zero, R(-4), R(96)}) }

LivePoses ==
  { NoneObj,
    [pitch |-> Zero, yaw |-> R(10), roll |-> R(-5)],
    [pitch |-> R(3), yaw |-> R(10), roll |-> R(-5)],
    [pitch |-> R(30), yaw |-> R(40), roll |-> R(-35)],
    [pitch |-> R(15)],
    [pitch |-> R(9)],
    [yaw |-> R(40), roll |-> R(-5)] }

LiveColors ==
  { NoneObj,
    [b |-> R(100), g |-> R(120), r |-> R(140)],
    [b |-> R(105), g |-> R(125), r |-> R(145)],
    [b |-> R(130), g |-> R(120), r |-> R(140)],
    [b |-> R(130), g |-> R(150), r |-> R(170)] }

LiveFeatureSets ==
  {NoneObj, EmptyDict}
  \cup {[geometry |-> g, pose |-> p, color |-> c]
         : g \in LiveGeometries, p \in LivePoses, c \in LiveColors}

Pending == [pending |-> TRUE]

\* a stored profile and a live feature set are handed to the matcher
InitAuth ==
  /\ profile \in Profiles
  /\ current_data \in LiveFeatureSets
  /\ live_dtype \in {"float", "float64"}
  /\ result = Pending

\* the gate is not used
GateIdle ==
  /\ thresholds = Settings(MaxFrames)
  /\ last_landmarks = None
  /\ last_pose = None
  /\ last_save_time = NoTime
  /\ frame_count = 0
  /\ now = 0
  /\ call = NoCall
  /\ first_obs_time = NoTime
  /\ all_quiet = TRUE
  /\ last_admitted = [landmarks |-> None, head_pose |-> None]

AuthInit == InitAuth /\ GateIdle /\ EnrollIdle /\ ExprIdle /\ DepthIdle
  /\ EngineIdle /\ MeshIdle

\* the call verify_biometric(profile, current_data)
Verify ==
  /\ result = Pending
  /\ result' = verify_biometric(profile, current_data)
  /\ UNCHANGED <<profile, current_data, live_dtype>>
  /\ UNCHANGED gate_vars
  /\ UNCHANGED enroll_vars
  /\ UNCHANGED expr_vars
  /\ UNCHANGED depth_vars
  /\ UNCHANGED engine_vars
  /\ UNCHANGED mesh_vars

NextAuth == Verify

SpecAuth == AuthInit /\ [][NextAuth]_vars

\* ------------------------------------------------------------ matcher claims
\* verify_biometric has returned scores
Scored == "info" \in DOMAIN result /\ "overall_score" \in DOMAIN result.info

\* every section of the profile and of the live feature set is there
AllSections(d) ==
  /\ ~Falsy(d)
  /\ \A c \in {"geometry", "pose", "color"} : ~Falsy(DictGet(d, c))

InUnit(x) == RGe(x, Zero) /\ RLe(x, One)

\* the live feature set equals the profile's stored mean, metric by metric,
\* axis by axis and channel by channel
LiveEqualsMeans ==
  /\ AllSections(profile) /\ AllSections(current_data)
  /\ DOMAIN current_data.geometry = DOMAIN profile.geometry
  /\ \A m \in DOMAIN profile.geometry :
       current_data.geometry[m] = profile.geometry[m].mean
  /\ DOMAIN current_data.pose = DOMAIN profile.pose
  /\ \A a \in DOMAIN profile.pose :
       current_data.pose[a] = profile.pose[a].mean
  /\ current_data.color = profile.color.mean

\* C7: a live feature set equal to the stored means, metric by metric, gets
\* overall score 1 and ACCEPT, also when a stored mean is 0 or negative.
C7_ExactMatchAccepted ==
  (result # Pending /\ LiveEqualsMeans)
    => /\ Scored
       /\ result.accept
       /\ result.info.overall_score = One

\* every geometry metric, every pose axis and every colour channel of the
\* live feature set is off the profile mean by more than its tolerance
AllBeyondTolerance ==
  /\ AllSections(profile) /\ AllSections(current_data)
  /\ DOMAIN current_data.geometry = DOMAIN profile.geometry
  /\ \A m \in DOMAIN profile.geometry :
       RGt(RAbs(RSub(current_data.geometry[m], profile.geometry[m].mean)),
           RMul(RAbs(profile.geometry[m].mean),
                Get(tolerance_thresholds, m, Frac(1, 10))))
  /\ DOMAIN current_data.pose = DOMAIN profile.pose
  /\ \A a \in DOMAIN profile.pose :
       RGt(RAbs(RSub(current_data.pose[a], profile.pose[a].mean)),
           tolerance_thresholds[a])
  /\ \A c \in Channels :
       RGt(RAbs(RSub(current_data.color[c], profile.color.mean[c])),
           tolerance_thresholds.color_tolerance)

\* C8: a live feature set that is off by more than the tolerance in every
\* metric, axis and colour channel gets overall score 0 and REJECT.
C8_AllBeyondToleranceRejected ==
  (result # Pending /\ AllBeyondTolerance)
    => /\ Scored
       /\ ~result.accept
       /\ result.info.overall_score = Zero

\* C9: every per-metric score, every category score and the overall score
\* lies in [0, 1], also for profile means that are 0 or negative.
C9_ScoresInUnitInterval ==
  Scored
    => /\ InUnit(result.info.overall_score)
       /\ \A c \in DOMAIN result.info.details :
            InUnit(result.info.details[c].match_score)
       /\ \A m \in DOMAIN Get(result.info.details.geometry,
                                "metric_scores", EmptyDict) :
            InUnit(result.info.details.geometry.metric_scores[m])
       /\ \A a \in DOMAIN Get(result.info.details.pose,
                                "axis_scores", EmptyDict) :
            InUnit(result.info.details.pose.axis_scores[a])

\* C10: with an absent (None or empty) profile or live feature set,
\* verify_biometric returns REJECT with a missing-data reason and no overall
\* score.
C10_MissingDataRejected ==
  (result # Pending /\ (Falsy(profile) \/ Falsy(current_data)))
    => /\ "accept" \in DOMAIN result
       /\ ~result.accept
       /\ DOMAIN result.info = {"error"}
       /\ result.info.error = "Missing profile or current data"

\* a complete live feature set was verified against an empty profile
C10_Witness ==
  /\ result # Pending
  /\ profile = EmptyDict
  /\ AllSections(current_data)
  /\ result.info.error = "Missing profile or current data"

\* ------------------------------------------------- matcher claims, scoring
Categories == {"geometry", "pose", "color"}

RECURSIVE RSetSum(_, _)
RSetSum(f, S) ==
  IF S = {} THEN Zero
  ELSE LET i == CHOOSE j \in S : TRUE IN RAdd(f[i], RSetSum(f, S \ {i}))

\* category c is present in both the profile and the live feature set
Available(c) ==
  ~Falsy(DictGet(profile, c)) /\ ~Falsy(DictGet(current_data, c))

AvailableCategories == {c \in Categories : Available(c)}

\* C11: the overall score is the arithmetic mean of the category scores of
\* the available categories only (those present in both the profile and the
\* live feature set); a category missing on either side is not averaged in
\* as a 0.
C11_MeanOfAvailableCategories ==
  (Scored /\ AvailableCategories # {})
    => result.info.overall_score =
         RDiv(RSetSum([c \in Categories |->
                         result.info.details[c].match_score],
                      AvailableCategories),
              R(Cardinality(AvailableCategories)))

\* C12: when profile and live data are both present, verify_biometric
\* returns ACCEPT if and only if the overall score it reports is at least
\* 0.8; a score of exactly 0.8 is accepted.
C12_AcceptIffAtLeastThreshold ==
  (result # Pending /\ ~Falsy(profile) /\ ~Falsy(current_data) /\ Scored)
    => (result.accept <=> RGe(result.info.overall_score, Frac(8, 10)))

\* a verification that scored exactly 0.8 and was accepted
C12_Witness ==
  /\ Scored
  /\ result.info.overall_score = Frac(8, 10)
  /\ result.accept
  /\ current_data.pose = [pitch |-> R(9)]

\* the metrics (axes) of category c that profile and live data share; a
\* colour is compared as a whole
SharedKeys(c) ==
  IF ~Available(c) THEN {}
  ELSE IF c = "color" THEN {"color"}
  ELSE DOMAIN profile[c] \cap DOMAIN current_data[c]

\* C13: a category with no available per-metric score (missing on one side,
\* or no metric or axis shared by profile and live data) has category score
\* 0 and carries an error / missing-data flag, which tells it from a genuine
\* zero match.
C13_NoScoreIsFlagged ==
  Scored
    => \A c \in Categories :
         SharedKeys(c) = {}
           => /\ result.info.details[c].match_score = Zero
              /\ "error" \in DOMAIN result.info.details[c]

\* the geometry score the formula max(0, 1 - |live - mean| / (mean * tol))
\* gives for metric m of profile geometry pg and live geometry g
FormulaScore(pg, g, m) ==
  LET tol == Get(tolerance_thresholds, m, Frac(1, 10))
  IN  RMax(Zero,
           RSub(One, RDiv(RAbs(RSub(g[m], pg[m].mean)),
                          RMul(pg[m].mean, tol))))

\* the formula is defined for every shared metric (no division by zero)
FormulaDefined(pg, g) ==
  \A m \in DOMAIN pg \cap DOMAIN g :
    RMul(pg[m].mean, Get(tolerance_thresholds, m, Frac(1, 10))) # Zero

\* pg, g and pg2, g2 share the same metrics with the same values
SameShared(pg, g, pg2, g2) ==
  /\ DOMAIN pg2 \cap DOMAIN g2 = DOMAIN pg \cap DOMAIN g
  /\ \A m \in DOMAIN pg \cap DOMAIN g : pg2[m] = pg[m] /\ g2[m] = g[m]

MaxSession == 2    \* the most frames a session holds of one category

RMin(a, b) == IF RLt(b, a) THEN b ELSE a

RECURSIVE RSeqMax(_)
RSeqMax(s) == IF Len(s) = 1 THEN s[1] ELSE RMax(s[1], RSeqMax(Tail(s)))

RECURSIVE RSeqMin(_)
RSeqMin(s) == IF Len(s) = 1 THEN s[1] ELSE RMin(s[1], RSeqMin(Tail(s)))

\* np.std: the square root of the mean squared deviation from the mean
RStd(values) ==
  LET mu == RMean(values)
      sq == [i \in 1..Len(values) |->
               RMul(RSub(values[i], mu), RSub(values[i], mu))]
  IN  RSqrt(RMean(sq), 1000)

\* session_data.get(key, [])
SessionGet(session, key) == IF key \in DOMAIN session THEN session[key] ELSE <<>>

\* line 54 raises KeyError: a frame lacks a metric of the first frame
GeometryKeyError(geometry_data) ==
  /\ geometry_data # <<>>
  /\ \E i \in 1..Len(geometry_data) :
       \E metric \in DOMAIN geometry_data[1] :
         metric \notin DOMAIN geometry_data[i]

\* a _process_geometry_data that leaves the first frame out of the mean and
\* the std when the session has more than one
_process_geometry_data_warmup(geometry_data) ==
  IF geometry_data = <<>> THEN NoneObj
  ELSE IF GeometryKeyError(geometry_data) THEN [raised |-> "KeyError"]
  ELSE
    [ metric \in DOMAIN geometry_data[1] |->
        LET values == [i \in 1..Len(geometry_data) |->
                         geometry_data[i][metric]]
            later == IF Len(values) > 1 THEN Tail(values) ELSE values
        IN  [ mean |-> RMean(later),
              std |-> RStd(later),
              min |-> RSeqMin(values),
              max |-> RSeqMax(values) ] ]

\* BiometricAuthenticator._process_geometry_data
_process_geometry_data(geometry_data) ==
  IF geometry_data = <<>> THEN NoneObj
  ELSE IF GeometryKeyError(geometry_data) THEN [raised |-> "KeyError"]
  ELSE
    [ metric \in DOMAIN geometry_data[1] |->
        LET values == [i \in 1..Len(geometry_data) |->
                         geometry_data[i][metric]]
        IN  [ mean |-> RMean(values),
              std |-> RStd(values),
              min |-> RSeqMin(values),
              max |-> RSeqMax(values) ] ]

\* a _process_pose_data that fills the section of a session without pose
\* frames with zeros
_process_pose_data_zeros(pose_data) ==
  [ axis \in Axes |->
      LET values == IF pose_data = <<>> THEN <<Zero>>
                    ELSE [i \in 1..Len(pose_data) |-> pose_data[i][axis]]
      IN  [ mean |-> RMean(values),
            std |-> RStd(values),
            range |-> RSub(RSeqMax(values), RSeqMin(values)) ] ]

\* BiometricAuthenticator._process_pose_data
_process_pose_data(pose_data) ==
  IF pose_data = <<>> THEN NoneObj
  ELSE
    [ axis \in Axes |->
        LET values == [i \in 1..Len(pose_data) |-> pose_data[i][axis]]
        IN  [ mean |-> RMean(values),
              std |-> RStd(values),
              range |-> RSub(RSeqMax(values), RSeqMin(values)) ] ]

\* BiometricAuthenticator._process_color_data
_process_color_data(color_data) ==
  IF color_data = <<>> THEN NoneObj
  ELSE
    LET column(c) == [i \in 1..Len(color_data) |-> color_data[i][c]]
    IN  [ mean |-> [c \in Channels |-> RMean(column(c))],
          std |-> [c \in Channels |-> RStd(column(c))] ]

\* BiometricAuthenticator.create_biometric_profile: the profile, or that
\* building it raised
create_biometric_profile(session) ==
  LET geometry == _process_geometry_data(SessionGet(session, "geometries"))
  IN  IF "raised" \in DOMAIN geometry THEN geometry
      ELSE [ geometry |-> geometry,
             pose |-> _process_pose_data(SessionGet(session, "poses")),
             color |-> _process_color_data(SessionGet(session, "colors")) ]

\* ------------------------------------------------------ enrollment inputs
\* the sequences over S of at most n elements
SeqUpTo(S, n) == UNION {[1..k -> S] : k \in 0..n}

\* geometry frames: complete ones and one that lacks a metric each
GeometryFrames ==
  { [eye_distance |-> R(100), face_width_height_ratio |-> Frac(13, 10)],
    [eye_distance |-> R(104), face_width_height_ratio |-> Frac(7, 5)],
    [eye_distance |-> R(104)],
    [face_width_height_ratio |-> Frac(7, 5)] }

PoseFrames ==
  { [pitch |-> Zero, yaw |-> R(10), roll |-> R(-5)],
    [pitch |-> R(4), yaw |-> R(10), roll |-> R(-3)] }

ColorFrames ==
  { [b |-> R(100), g |-> R(120), r |-> R(140)],
    [b |-> R(110), g |-> R(120), r |-> R(130)] }

\* a session: for each category a list of frames, or no entry at all
Sessions ==
  { Dict({"geometries", "poses", "colors"},
         [geometries |-> g, poses |-> p, colors |-> c])
    : g \in Optional(SeqUpTo(GeometryFrames, MaxSession)),
      p \in Optional(SeqUpTo(PoseFrames, MaxSession)),
      c \in Optional(SeqUpTo(ColorFrames, MaxSession)) }

InitEnroll ==
  /\ session_data \in Sessions
  /\ enrolled = Pending

EnrollInit == InitEnroll /\ GateIdle /\ AuthIdle /\ ExprIdle /\ DepthIdle
  /\ EngineIdle /\ MeshIdle

\* the call create_biometric_profile(session_data)
Enroll ==
  /\ enrolled = Pending
  /\ enrolled' = create_biometric_profile(session_data)
  /\ UNCHANGED session_data
  /\ UNCHANGED gate_vars
  /\ UNCHANGED auth_vars
  /\ UNCHANGED expr_vars
  /\ UNCHANGED depth_vars
  /\ UNCHANGED engine_vars
  /\ UNCHANGED mesh_vars

NextEnroll == Enroll

SpecEnroll == EnrollInit /\ [][NextEnroll]_vars

\* ------------------------------------------------------ enrollment claims
\* create_biometric_profile has returned a profile
Built == enrolled # Pending /\ "raised" \notin DOMAIN enrolled

\* the metrics that occur in some geometry frame of the session
SessionMetrics ==
  UNION {DOMAIN SessionGet(session_data, "geometries")[i]
           : i \in 1..Len(SessionGet(session_data, "geometries"))}

\* the values of metric m, over exactly the frames that have it
ValuesOf(m) ==
  LET frames == SessionGet(session_data, "geometries")
      having == SelectSeq(frames, LAMBDA f : m \in DOMAIN f)
  IN  [i \in 1..Len(having) |-> having[i][m]]

\* C15: a geometry metric present in only some of the enrolled frames
\* (missing from the first frame or from a later one) is aggregated over
\* exactly the frames in which it is present; aggregation neither fails nor
\* drops the metric.
C15_PartialMetricAggregated ==
  (enrolled # Pending /\ SessionGet(session_data, "geometries") # <<>>)
    => /\ Built
       /\ DOMAIN enrolled.geometry = SessionMetrics
       /\ \A m \in SessionMetrics :
            /\ enrolled.geometry[m].mean = RMean(ValuesOf(m))
            /\ enrolled.geometry[m].min = RSeqMin(ValuesOf(m))
            /\ enrolled.geometry[m].max = RSeqMax(ValuesOf(m))

\* the session key that feeds each profile section
SessionKey == [geometry |-> "geometries", pose |-> "poses", color |-> "colors"]

\* the frames the session supplies for category c
FramesOf(c) == SessionGet(session_data, SessionKey[c])

\* the values the frames of category c have under key k
ColumnOf(c, k) == [i \in 1..Len(FramesOf(c)) |-> FramesOf(c)[i][k]]

\* section c of the profile is there and holds, for each of its keys, the
\* mean of that key over the frames of c
SectionFromOwnFrames(c) ==
  /\ enrolled[c] # NoneObj
  /\ IF c = "color"
     THEN enrolled.color.mean = [k \in Channels |-> RMean(ColumnOf(c, k))]
     ELSE \A k \in DOMAIN enrolled[c] :
            enrolled[c][k].mean = RMean(ColumnOf(c, k))

\* C16: whenever create_biometric_profile returns, a category for which the
\* session supplies no frames yields an absent section (None), never a
\* section filled with zeros, and the sections of the categories that have
\* frames are built from their own frames all the same.
C16_AbsentCategoryAbsentSection ==
  Built
    => \A c \in Categories :
         IF FramesOf(c) = <<>>
         THEN enrolled[c] = NoneObj
         ELSE SectionFromOwnFrames(c)

\* a session with geometry and colour frames and no pose frames at all
C16_Witness ==
  /\ Built
  /\ "poses" \notin DOMAIN session_data
  /\ Len(FramesOf("geometry")) = 2
  /\ Len(FramesOf("color")) = 2
  /\ enrolled.pose = NoneObj
  /\ enrolled.geometry # NoneObj
  /\ enrolled.color # NoneObj

\* ---------------------------------------------------- expression analyzer
MaxCalls == 3    \* the most analyze_expression calls on one instance

\* the feature_indices handed to the constructor: rows of the landmark array
feature_indices ==
  [ mouth |-> <<0, 1, 2, 3>>,
    left_eye |-> <<4, 5, 6, 7, 8, 9, 10>>,
    right_eye |-> <<11, 12, 13, 14, 15, 16, 17>>,
    left_eyebrow |-> <<18, 19>>,
    right_eyebrow |-> <<20, 21>> ]

\* An Nx3 landmark array (N = 22) in which the mouth is w wide and o open,
\* the eyes are el and er open and the brows lie b from the eyes.
ExprFace(w, o, el, er, b) ==
  LET eye_y == R(5)
      mean_y(e) == RAdd(eye_y, RMul(Frac(3, 7), e))
  IN  [ i \in 0..21 |->
        CASE i = 0 -> <<Zero, R(10), Zero>>
          [] i = 1 -> <<w, R(10), Zero>>
          [] i = 2 -> <<Frac(1, 2), R(10), Zero>>
          [] i = 3 -> <<Frac(1, 2), RAdd(R(10), o), Zero>>
          [] i \in 4..7 -> <<R(i - 4), eye_y, Zero>>
          [] i \in 8..10 -> <<R(i - 7), RAdd(eye_y, el), Zero>>
          [] i \in 11..14 -> <<R(i - 5), eye_y, Zero>>
          [] i \in 15..17 -> <<R(i - 8), RAdd(eye_y, er), Zero>>
          [] i \in 18..19 -> <<R(i - 17), RAdd(mean_y(el), b), Zero>>
          [] i \in 20..21 -> <<R(i - 13), RAdd(mean_y(er), b), Zero>> ]

LandmarkIds == {"smile", "tie", "edge", "low", "far", "squint"}

\* the landmark arrays of the model: a full smile; a face that is as much a
\* smile as a frown; faces whose best score is 0.1, 0.05 and below 0; a
\* squint
Landmarks(id) ==
  CASE id = "smile" ->
         ExprFace(Frac(6, 5), Frac(3, 10), Frac(1, 5), Frac(1, 5), Zero)
    [] id = "tie" -> ExprFace(One, Frac(3, 20), Zero, Zero, Frac(-1, 5))
    [] id = "edge" -> ExprFace(R(5), Frac(23, 10), R(3), R(3), Frac(3, 10))
    [] id = "low" -> ExprFace(R(5), Frac(12, 5), R(3), R(3), Frac(3, 10))
    [] id = "far" -> ExprFace(R(5), R(4), R(3), R(3), R(3))
    [] id = "squint" -> ExprFace(R(5), R(4), Zero, Zero, Frac(-1, 10))

\* landmarks[indices]
Rows(landmarks, indices) == [k \in 1..Len(indices) |-> landmarks[indices[k]]]

\* np.linalg.norm of a 3-vector
VNorm(v) ==
  RSqrt(RAdd(RMul(v[1], v[1]), RAdd(RMul(v[2], v[2]), RMul(v[3], v[3]))),
        1000)

VSub(a, b) == <<RSub(a[1], b[1]), RSub(a[2], b[2]), RSub(a[3], b[3])>>

\* mouth_points[2] is the top middle point, mouth_points[3] the bottom one
_calculate_mouth_openness(mouth_points) ==
  VNorm(VSub(mouth_points[3], mouth_points[4]))

_calculate_mouth_width_ratio(mouth_points) ==
  VNorm(VSub(mouth_points[2], mouth_points[1]))

\* eye_points[1:4] against eye_points[4:7]
_calculate_eye_openness(eye_points) ==
  RMean([k \in 1..3 |-> VNorm(VSub(eye_points[k + 1], eye_points[k + 4]))])

\* np.mean(points[:, 1])
MeanY(points) == RMean([k \in 1..Len(points) |-> points[k][2]])

_calculate_brow_height(left_brow, right_brow, left_eye, right_eye) ==
  LET left_height == RSub(MeanY(left_brow), MeanY(left_eye))
      right_height == RSub(MeanY(right_brow), MeanY(right_eye))
  IN  RMean(<<left_height, right_height>>)

\* ExpressionAnalyzer._calculate_expression_metrics
_calculate_expression_metrics(landmarks) ==
  LET mouth_points == Rows(landmarks, feature_indices.mouth)
      left_eye_points == Rows(landmarks, feature_indices.left_eye)
      right_eye_points == Rows(landmarks, feature_indices.right_eye)
      left_brow_points == Rows(landmarks, feature_indices.left_eyebrow)
      right_brow_points == Rows(landmarks, feature_indices.right_eyebrow)
  IN  [ mouth_openness |-> _calculate_mouth_openness(mouth_points),
        mouth_width_ratio |-> _calculate_mouth_width_ratio(mouth_points),
        left_eye_openness |-> _calculate_eye_openness(left_eye_points),
        right_eye_openness |-> _calculate_eye_openness(right_eye_points),
        brow_height |-> _calculate_brow_height(left_brow_points,
                                               right_brow_points,
                                               left_eye_points,
                                               right_eye_points) ]

\* ExpressionAnalyzer._calculate_movement_metrics against the stored
\* previous landmarks
_calculate_movement_metrics(landmarks, previous) ==
  IF previous = None THEN EmptyDict
  ELSE
    LET movement == [i \in DOMAIN Landmarks(landmarks) |->
                       VNorm(VSub(Landmarks(landmarks)[i],
                                  Landmarks(previous)[i]))]
        mean_over(indices) ==
          RMean([k \in 1..Len(indices) |-> movement[indices[k]]])
    IN  [ total_movement |-> RMean([k \in 1..22 |-> movement[k - 1]]),
          mouth_movement |-> mean_over(feature_indices.mouth),
          left_eye_movement |-> mean_over(feature_indices.left_eye),
          right_eye_movement |-> mean_over(feature_indices.right_eye),
          left_eyebrow_movement |-> mean_over(feature_indices.left_eyebrow),
          right_eyebrow_movement |-> mean_over(feature_indices.right_eyebrow) ]

\* the order in which the characteristics dict lists the expressions
ExpressionOrder == <<"smile", "frown", "surprise", "squint">>

\* lines 137-157
characteristics ==
  [ smile |-> [mouth_width_ratio |-> Frac(12, 10),
               mouth_openness |-> Frac(3, 10),
               brow_height |-> Zero],
    frown |-> [mouth_width_ratio |-> Frac(8, 10),
               mouth_openness |-> Frac(-2, 10),
               brow_height |-> Frac(-2, 10)],
    surprise |-> [mouth_openness |-> Frac(5, 10),
                  brow_height |-> Frac(3, 10)],
    squint |-> [left_eye_openness |-> Frac(-3, 10),
                right_eye_openness |-> Frac(-3, 10),
                brow_height |-> Frac(-1, 10)] ]

\* ExpressionAnalyzer._calculate_expression_score
_calculate_expression_score(metrics, chars) ==
  LET keys == DOMAIN chars \cap DOMAIN metrics
      differences == [key \in keys |-> RAbs(RSub(metrics[key], chars[key]))]
  IN  IF keys = {} THEN Zero
      ELSE RSub(One, RDiv(RSetSum(differences, keys), R(Cardinality(keys))))

\* max(scores.items(), key=...) keeps the first of equal maxima: the best
\* of the first n expressions
RECURSIVE BestOf(_, _)
BestOf(scores, n) ==
  IF n = 1 THEN ExpressionOrder[1]
  ELSE LET best == BestOf(scores, n - 1)
       IN  IF RGt(scores[ExpressionOrder[n]], scores[best])
           THEN ExpressionOrder[n]
           ELSE best

\* a _classify_expression that lets the last of equal maxima win
_classify_expression_last(expression_metrics, movement_metrics, threshold) ==
  LET scores == [e \in DOMAIN characteristics |->
                   _calculate_expression_score(expression_metrics,
                                               characteristics[e])]
      max_score == CHOOSE x \in {scores[e] : e \in DOMAIN scores} :
                     \A e \in DOMAIN scores : RGe(x, scores[e])
      last == CHOOSE n \in 1..4 :
                /\ scores[ExpressionOrder[n]] = max_score
                /\ \A k \in (n + 1)..4 : scores[ExpressionOrder[k]] # max_score
  IN  IF RLt(max_score, threshold)
      THEN <<"neutral", RSub(One, max_score)>>
      ELSE <<ExpressionOrder[last], max_score>>

\* ExpressionAnalyzer._classify_expression, with self.neutral_threshold
_classify_expression(expression_metrics, movement_metrics, threshold) ==
  LET scores == [e \in DOMAIN characteristics |->
                   _calculate_expression_score(expression_metrics,
                                               characteristics[e])]
      best_expression == BestOf(scores, Len(ExpressionOrder))
      max_score == scores[best_expression]
  IN  IF RLt(max_score, threshold)
      THEN <<"neutral", RSub(One, max_score)>>
      ELSE <<best_expression, max_score>>

\* the ExpressionFeatures of one call
Analysis(landmarks, previous, threshold) ==
  LET expression_metrics == _calculate_expression_metrics(Landmarks(landmarks))
      movement_metrics == _calculate_movement_metrics(landmarks, previous)
      classified == _classify_expression(expression_metrics, movement_metrics,
                                         threshold)
  IN  [ primary_expression |-> classified[1],
        confidence |-> classified[2],
        expression_metrics |-> expression_metrics,
        movement_metrics |-> movement_metrics ]

\* an analyze_expression that remembers the landmarks of expressive faces
\* only
analyze_expression_expressive(landmarks) ==
  /\ Len(observations) < MaxCalls
  /\ features' = Analysis(landmarks, analyzer_previous_landmarks,
                          neutral_threshold)
  /\ analyzer_previous_landmarks' =
       IF features'.primary_expression = "neutral"
       THEN analyzer_previous_landmarks
       ELSE landmarks
  /\ observations' = Append(observations, landmarks)
  /\ UNCHANGED neutral_threshold
  /\ UNCHANGED gate_vars
  /\ UNCHANGED auth_vars
  /\ UNCHANGED enroll_vars
  /\ UNCHANGED depth_vars
  /\ UNCHANGED engine_vars
  /\ UNCHANGED mesh_vars

\* ExpressionAnalyzer.analyze_expression
analyze_expression(landmarks) ==
  /\ Len(observations) < MaxCalls
  /\ features' = Analysis(landmarks, analyzer_previous_landmarks,
                          neutral_threshold)
  /\ analyzer_previous_landmarks' = landmarks
  /\ observations' = Append(observations, landmarks)
  /\ UNCHANGED neutral_threshold
  /\ UNCHANGED gate_vars
  /\ UNCHANGED auth_vars
  /\ UNCHANGED enroll_vars
  /\ UNCHANGED depth_vars
  /\ UNCHANGED engine_vars
  /\ UNCHANGED mesh_vars

Analyze == \E landmarks \in LandmarkIds : analyze_expression(landmarks)

\* ExpressionAnalyzer.__init__, with the default neutral threshold or a
\* high one
InitExpr ==
  /\ neutral_threshold \in {Frac(1, 10), Frac(9, 10)}
  /\ analyzer_previous_landmarks = None
  /\ features = Pending
  /\ observations = <<>>

ExprInit == InitExpr /\ GateIdle /\ AuthIdle /\ EnrollIdle /\ DepthIdle
  /\ EngineIdle /\ MeshIdle

NextExpr == Analyze

SpecExpr == ExprInit /\ [][NextExpr]_vars

\* ------------------------------------------------------ expression claims
\* analyze_expression has returned
Analysed == features # Pending

\* C17: for every landmark set the confidence returned by
\* analyze_expression lies in [0, 1], for the label neutral (confidence
\* 1 - max score) as for smile, frown, surprise and squint (confidence the
\* expression's score).
C17_ConfidenceInUnitInterval ==
  Analysed => InUnit(features.confidence)

\* the four expression scores of the returned expression metrics
ScoresOf(metrics) ==
  [e \in DOMAIN characteristics |->
     _calculate_expression_score(metrics, characteristics[e])]

\* x is the greatest of the scores
IsMaxScore(scores, x) ==
  /\ \E e \in DOMAIN scores : scores[e] = x
  /\ \A e \in DOMAIN scores : RLe(scores[e], x)

\* C18: the classifier returns neutral with confidence 1 - max score
\* exactly when the greatest of the four scores is strictly below the
\* neutral threshold; otherwise it returns the expression with the greatest
\* score and that score as confidence, the earliest in the order smile,
\* frown, surprise, squint when several share it.
C18_NeutralOrEarliestMax ==
  Analysed
    => LET scores == ScoresOf(features.expression_metrics)
           max_score == CHOOSE x \in {scores[e] : e \in DOMAIN scores} :
                          IsMaxScore(scores, x)
       IN  IF RLt(max_score, neutral_threshold)
           THEN /\ features.primary_expression = "neutral"
                /\ features.confidence = RSub(One, max_score)
           ELSE /\ features.primary_expression # "neutral"
                /\ features.confidence = max_score
                /\ \E n \in 1..4 :
                     /\ features.primary_expression = ExpressionOrder[n]
                     /\ scores[ExpressionOrder[n]] = max_score
                     /\ \A k \in 1..(n - 1) :
                          scores[ExpressionOrder[k]] # max_score

\* smile and frown share the greatest score and smile is returned
C18_Witness ==
  /\ Analysed
  /\ neutral_threshold = Frac(1, 10)
  /\ LET scores == ScoresOf(features.expression_metrics)
     IN  /\ scores.smile = scores.frown
         /\ IsMaxScore(scores, scores.frown)
  /\ features.primary_expression = "smile"
  /\ features.confidence = Frac(49, 60)

\* f[lo] + ... + f[hi]
RECURSIVE RangeSum(_, _, _)
RangeSum(f, lo, hi) ==
  IF lo = hi THEN f[lo]
  ELSE LET mid == (lo + hi) \div 2
       IN  RAdd(RangeSum(f, lo, mid), RangeSum(f, mid + 1, hi))

\* the mean over all rows of the distance between landmark sets a and b
MeanDistance(a, b) ==
  RDiv(RangeSum([i \in 0..21 |->
                   VNorm(VSub(Landmarks(a)[i], Landmarks(b)[i]))],
                0, 21),
       R(22))

\* C19: after every analyze_expression call, whatever the label, the stored
\* previous landmark set is the landmark set of that call; the movement
\* metrics are empty on the first call of an instance and on every later
\* call are computed against the immediately preceding observation.
C19_PreviousIsLastObservation ==
  Analysed
    => LET n == Len(observations)
       IN  /\ analyzer_previous_landmarks = observations[n]
           /\ (n = 1 <=> features.movement_metrics = EmptyDict)
           /\ n > 1 =>
                /\ "total_movement" \in DOMAIN features.movement_metrics
                /\ features.movement_metrics.total_movement =
                     MeanDistance(observations[n], observations[n - 1])

\* a third call, after a call that was labelled neutral: the movement is
\* the one from the second observation, not from the first
C19_Witness ==
  /\ Analysed
  /\ neutral_threshold = Frac(1, 10)
  /\ observations = <<"tie", "far", "smile">>
  /\ analyzer_previous_landmarks = "smile"
  /\ features.movement_metrics.total_movement = MeanDistance("smile", "far")
  /\ MeanDistance("smile", "far") # MeanDistance("smile", "tie")

\* ------------------------------------------------------------ depth mapper
\* A cell of a depth map holds NaN or a number.  The numbers themselves are
\* not modelled: a cell that holds one is marked with the step that gave it
\* (linear interpolation or the nearest-neighbour fill), and smoothing,
\* which rewrites exactly the cells that hold a number, keeps the mark.
\* The depth column of every landmark array of the model is flat: each row
\* has the depth of the nose tip, so relative_depths is 0 in every row.
\* A coordinate is an integer count of Unit-ths (of a pixel, or of a grid
\* step once scaled); every coordinate of the model is such a multiple.
NaN == "nan"
Linear == "linear"
Nearest == "nearest"

Unit == 192

\* the feature_indices handed to the DepthMapper: rows of the landmark array
depth_feature_indices ==
  [ face_contour |-> <<127, 356, 377, 148>>,
    nose_tip |-> 1 ]

\* line 24: the forehead rows
ForeheadRows == <<10, 108, 67, 69, 104, 151, 337, 299, 333, 297, 338>>

\* one more row of the array, a landmark that is not on the contour
FreeRow == 5

DepthRows ==
  {depth_feature_indices.face_contour[k] : k \in 1..4}
    \cup {ForeheadRows[k] : k \in 1..11}
    \cup {depth_feature_indices.nose_tip, FreeRow}

\* the contour boxes <<x0, y0, x1, y1>> and the places of the free landmark,
\* in sixteenths of the image
ContourBoxes ==
  [ full |-> <<0, 0, 16, 16>>,
    centre |-> <<4, 4, 12, 12>>,
    left |-> <<0, 4, 8, 16>>,
    line |-> <<4, 4, 4, 12>> ]

FreePlaces ==
  [ inside |-> <<6, 9>>,
    corner |-> <<16, 16>>,
    right |-> <<16, 8>>,
    top |-> <<8, 0>> ]

DepthLandmarkIds ==
  {<<b, f>> : b \in DOMAIN ContourBoxes, f \in DOMAIN FreePlaces}

\* The x and y columns of the landmark array id, in pixels of an image of
\* the given size: the contour rows at the corners of the box, the forehead
\* rows along its upper edge, the nose tip at its centre.
DepthLandmarks(id, size) ==
  LET box == ContourBoxes[id[1]]
      free == FreePlaces[id[2]]
      px(u) == (u * size[1] * Unit) \div 16
      py(v) == (v * size[2] * Unit) \div 16
      contour == depth_feature_indices.face_contour
  IN  [ row \in DepthRows |->
        CASE row = contour[1] -> <<px(box[1]), py(box[2])>>
          [] row = contour[2] -> <<px(box[3]), py(box[2])>>
          [] row = contour[3] -> <<px(box[3]), py(box[4])>>
          [] row = contour[4] -> <<px(box[1]), py(box[4])>>
          [] row = depth_feature_indices.nose_tip ->
               <<((box[1] + box[3]) * size[1] * Unit) \div 32,
                 ((box[2] + box[4]) * size[2] * Unit) \div 32>>
          [] row = FreeRow -> <<px(free[1]), py(free[2])>>
          [] OTHER ->
               LET k == CHOOSE n \in 1..11 : ForeheadRows[n] = row
               IN  <<px(box[1])
                       + (k * (box[3] - box[1]) * size[1] * Unit) \div (16 * 12),
                     py(box[2])>> ]

\* (a - o) x (b - o)
Cross(o, a, b) ==
  (a[1] - o[1]) * (b[2] - o[2]) - (a[2] - o[2]) * (b[1] - o[1])

\* (a - o) . (b - o)
Dot(o, a, b) ==
  (a[1] - o[1]) * (b[1] - o[1]) + (a[2] - o[2]) * (b[2] - o[2])

\* a line through p and s has all of S on one side and, on the line itself,
\* only points on the side of s
Separates(p, s, S) ==
  \/ \A t \in S : /\ Cross(p, s, t) >= 0
                  /\ Cross(p, s, t) = 0 => Dot(p, s, t) > 0
  \/ \A t \in S : /\ Cross(p, s, t) <= 0
                  /\ Cross(p, s, t) = 0 => Dot(p, s, t) > 0

\* p lies in the convex hull of the points S (its boundary included)
InHull(p, S) == p \in S \/ ~\E s \in S : Separates(p, s, S)

\* cv2.convexHull: the corners of the hull of S
ConvexHull(S) == {p \in S : ~InHull(p, S \ {p})}

\* the rows of the mask (and of the map) and their columns
CellRows(resolution) == 0..(resolution[1] - 1)
CellCols(resolution) == 0..(resolution[2] - 1)

\* lines 27-36: the corners of the hull of the contour and forehead points,
\* scaled by resolution / image size and cut to integers (astype(np.int32))
HullPoints(points, resolution, size) ==
  LET mask_points ==
        {points[depth_feature_indices.face_contour[k]] : k \in 1..4}
          \cup {points[ForeheadRows[k]] : k \in 1..11}
  IN  { <<(h[1] * resolution[1]) \div (size[1] * Unit),
          (h[2] * resolution[2]) \div (size[2] * Unit)>>
        : h \in ConvexHull(mask_points) }

\* line 37: cv2.fillConvexPoly on a mask of shape resolution; it reads a
\* point as (column, row)
FillConvexPoly(hull_points, resolution) ==
  [ i \in CellRows(resolution) |->
    [ j \in CellCols(resolution) |-> InHull(<<j, i>>, hull_points) ] ]

\* DepthMapper._create_face_mask: mask[i][j], for points already scaled to
\* the grid
_create_face_mask(points, resolution, size) ==
  FillConvexPoly(HullPoints(points, resolution, size), resolution)

\* np.mgrid[0:n:n*1j]: n values from 0 to n, both ends included
GridCoord(k, n) == IF n = 1 THEN 0 ELSE (k * n * Unit) \div (n - 1)

\* lines 53-54
ResolutionOf(resolution, size) ==
  IF resolution = <<>> THEN <<size[1] \div 4, size[2] \div 4>> ELSE resolution

\* lines 76-78: the landmark positions scaled to the grid
ScaledPoints(landmarks_array, resolution, size) ==
  [ row \in DOMAIN landmarks_array |->
      <<(landmarks_array[row][1] * resolution[1]) \div size[1],
        (landmarks_array[row][2] * resolution[2]) \div size[2]>> ]

\* lines 62-65: face_size is 0 when the contour has no width or no height
FaceSizeIsZero(landmarks_array) ==
  LET contour == depth_feature_indices.face_contour
      xs == {landmarks_array[contour[k]][1] : k \in 1..4}
      ys == {landmarks_array[contour[k]][2] : k \in 1..4}
  IN  SetMax(xs) - SetMin(xs) = 0 \/ SetMax(ys) - SetMin(ys) = 0

\* lines 56-69: relative_depths / (face_size * scale_factor) on a flat
\* array is a number (0.0) in every row, or 0.0 / 0.0 = NaN in every row
\* (numpy divides without raising)
normalized_depths(landmarks_array) ==
  IF FaceSizeIsZero(landmarks_array) THEN NaN ELSE Linear

\* griddata, method linear: NaN outside the hull of the points, inside it
\* a combination of the values at the points
GridLinear(all_points, values, resolution) ==
  [ i \in CellRows(resolution) |->
    [ j \in CellCols(resolution) |->
        IF InHull(<<GridCoord(i, resolution[1]), GridCoord(j, resolution[2])>>,
                  all_points)
        THEN values ELSE NaN ] ]

\* lines 88-92: NaN cells inside the mask take the value at the nearest
\* landmark
FillNearest(linear, values, face_mask, resolution) ==
  [ i \in CellRows(resolution) |->
    [ j \in CellCols(resolution) |->
        IF linear[i][j] = NaN /\ face_mask[i][j]
        THEN (IF values = NaN THEN NaN ELSE Nearest)
        ELSE linear[i][j] ] ]

\* lines 95-101: the cells that hold a number are smoothed in place
Smooth(filled, resolution) ==
  [ i \in CellRows(resolution) |->
    [ j \in CellCols(resolution) |->
        IF filled[i][j] # NaN THEN filled[i][j] ELSE NaN ] ]

\* DepthMapper.create_depth_map: the map it returns and stores, as a tuple
\* of rows
create_depth_map(landmarks_array, resolution_, size) ==
  LET resolution == ResolutionOf(resolution_, size)
      points == ScaledPoints(landmarks_array, resolution, size)
      face_mask == _create_face_mask(points, resolution, size)
      values == normalized_depths(landmarks_array)
      linear == GridLinear({points[row] : row \in DOMAIN points}, values,
                           resolution)
      smoothed == Smooth(FillNearest(linear, values, face_mask, resolution),
                         resolution)
  IN  [ i \in 1..resolution[1] |->
        [ j \in 1..resolution[2] |-> smoothed[i - 1][j - 1] ] ]

ImageSizes == {<<16, 16>>, <<8, 8>>, <<16, 8>>}

\* the resolution argument: None (<<>>) or a grid size
Resolutions == {<<>>, <<4, 4>>, <<4, 2>>, <<2, 2>>}

\* DepthMapper.__init__
InitDepth ==
  /\ image_size \in ImageSizes
  /\ depth_args = [landmarks_array |-> <<>>, resolution |-> <<>>]
  /\ depth_map = <<>>

DepthInit == InitDepth /\ GateIdle /\ AuthIdle /\ EnrollIdle /\ ExprIdle
  /\ EngineIdle /\ MeshIdle

\* a call create_depth_map(landmarks_array, resolution)
CreateDepthMap ==
  \E id \in DepthLandmarkIds, resolution \in Resolutions :
    /\ depth_args' = [landmarks_array |-> id, resolution |-> resolution]
    /\ depth_map' = create_depth_map(DepthLandmarks(id, image_size),
                                     resolution, image_size)
    /\ UNCHANGED image_size
    /\ UNCHANGED gate_vars
    /\ UNCHANGED auth_vars
    /\ UNCHANGED enroll_vars
    /\ UNCHANGED expr_vars
    /\ UNCHANGED engine_vars
    /\ UNCHANGED mesh_vars

NextDepth == CreateDepthMap

SpecDepth == DepthInit /\ [][NextDepth]_vars

\* ------------------------------------------------------------ depth claims
\* create_depth_map has returned a map
Mapped == depth_map # <<>>

\* the face mask of the last call
LastFaceMask ==
  LET resolution == ResolutionOf(depth_args.resolution, image_size)
  IN  _create_face_mask(
        ScaledPoints(DepthLandmarks(depth_args.landmarks_array, image_size),
                     resolution, image_size),
        resolution, image_size)

\* C20: in the map create_depth_map returns, every cell outside the face
\* mask is undefined (NaN), also a cell inside the convex hull of all
\* landmark points, where linear interpolation produced a value.
C20_OutsideMaskUndefined ==
  Mapped
    => \A i \in 1..Len(depth_map) : \A j \in 1..Len(depth_map[i]) :
         ~LastFaceMask[i - 1][j - 1] => depth_map[i][j] = NaN

\* the landmark array of the last call, and its points scaled to the grid
LastLandmarks == DepthLandmarks(depth_args.landmarks_array, image_size)

LastResolution == ResolutionOf(depth_args.resolution, image_size)

\* the map of the last call after the nearest-neighbour fill, before the
\* smoothing
LastFilled ==
  LET points == ScaledPoints(LastLandmarks, LastResolution, image_size)
      values == normalized_depths(LastLandmarks)
  IN  FillNearest(GridLinear({points[row] : row \in DOMAIN points}, values,
                             LastResolution),
                  values, LastFaceMask, LastResolution)

\* the input has at least 4 points, not all on one line
FourNonCollinear ==
  LET S == {LastLandmarks[row] : row \in DOMAIN LastLandmarks}
  IN  /\ Cardinality(S) >= 4
      /\ \E a \in S, b \in S, c \in S : Cross(a, b, c) # 0

\* C21: given at least 4 non-collinear input points, every cell inside the
\* face mask is defined (not NaN) in the map create_depth_map returns, and
\* the smoothing leaves the set of defined cells as the fill left it.
C21_InsideMaskDefined ==
  (Mapped /\ FourNonCollinear)
    => \A i \in 1..Len(depth_map) : \A j \in 1..Len(depth_map[i]) :
         /\ LastFaceMask[i - 1][j - 1] => depth_map[i][j] # NaN
         /\ (LastFilled[i - 1][j - 1] # NaN) <=> (depth_map[i][j] # NaN)

\* ------------------------------------------------------------ feature engine
\* LandmarkAnalyzer (distances, ratios, symmetry) and GeometryAnalyzer
\* (proportions).  Both are built with the same feature_indices and keep no
\* state between calls; each call variable holds the argument and the
\* outcome of the last call.
RNaN == <<0, 0>>      \* float('nan')
NegInf == <<-1, 0>>   \* float('-inf')

Finite(q) == q[2] # 0

\* the quotient of two finite numpy float64 numbers: a zero divisor gives
\* inf, -inf or nan (and a RuntimeWarning), never an exception
NpDiv(a, b) ==
  IF b # Zero THEN RDiv(a, b)
  ELSE IF a = Zero THEN RNaN
  ELSE IF a[1] > 0 THEN Inf ELSE NegInf

\* the feature_indices handed to both analyzers: rows of the landmark array
engine_feature_indices ==
  [ left_eye |-> <<0, 1>>,
    right_eye |-> <<2, 3>>,
    nose_tip |-> 4,
    nose_bridge |-> <<5, 6>>,
    mouth |-> <<7, 8>>,
    face_contour |-> <<9, 10, 11, 12>>,
    left_eyebrow |-> <<13, 14>>,
    right_eyebrow |-> <<15, 16>> ]

P(x, y) == <<R(x), R(y), Zero>>

\* a face that is mirror-symmetric about the line x = 5 of its nose bridge;
\* the rows of each eye and eyebrow run from the inner to the outer end
EvenFace ==
  [ i \in 0..16 |->
    CASE i = 0 -> P(4, 4)   [] i = 1 -> P(2, 4)
      [] i = 2 -> P(6, 4)   [] i = 3 -> P(8, 4)
      [] i = 4 -> P(5, 7)
      [] i = 5 -> P(5, 3)   [] i = 6 -> P(5, 6)
      [] i = 7 -> P(3, 9)   [] i = 8 -> P(7, 9)
      [] i = 9 -> P(0, 0)   [] i = 10 -> P(10, 0)
      [] i = 11 -> P(10, 12) [] i = 12 -> P(0, 12)
      [] i = 13 -> P(4, 3)  [] i = 14 -> P(2, 3)
      [] i = 15 -> P(6, 3)  [] i = 16 -> P(8, 3) ]

EngineLandmarkIds ==
  {"even", "listed", "skew", "no_mouth", "no_eye", "thin", "flat"}

\* the landmark arrays of the model: the even face; the same face with the
\* rows of the left eye and eyebrow running from the outer to the inner end;
\* a face whose left eye and eyebrow reach further out; faces without mouth
\* width, right eye width, face width, face height
EngineLandmarks(id) ==
  CASE id = "even" -> EvenFace
    [] id = "listed" ->
         [EvenFace EXCEPT ![0] = P(2, 4), ![1] = P(4, 4),
                          ![13] = P(2, 3), ![14] = P(4, 3)]
    [] id = "skew" -> [EvenFace EXCEPT ![1] = P(1, 4), ![14] = P(0, 3)]
    [] id = "no_mouth" -> [EvenFace EXCEPT ![8] = P(3, 9)]
    [] id = "no_eye" -> [EvenFace EXCEPT ![3] = P(6, 4)]
    [] id = "thin" ->
         [EvenFace EXCEPT ![9] = P(5, 0), ![10] = P(5, 0),
                          ![11] = P(5, 12), ![12] = P(5, 12)]
    [] id = "flat" ->
         [EvenFace EXCEPT ![9] = P(0, 6), ![10] = P(10, 6),
                          ![11] = P(10, 6), ![12] = P(0, 6)]

VAdd(a, b) == <<RAdd(a[1], b[1]), RAdd(a[2], b[2]), RAdd(a[3], b[3])>>

VScale(a, k) == <<RMul(a[1], k), RMul(a[2], k), RMul(a[3], k)>>

VDot(a, b) == RAdd(RMul(a[1], b[1]), RAdd(RMul(a[2], b[2]), RMul(a[3], b[3])))

\* np.mean(points, axis=0)
VMean(points) ==
  <<RMean([k \in 1..Len(points) |-> points[k][1]]),
    RMean([k \in 1..Len(points) |-> points[k][2]]),
    RMean([k \in 1..Len(points) |-> points[k][3]])>>

\* LandmarkAnalyzer._point_distance
_point_distance(p1, p2) == VNorm(VSub(p1, p2))

\* LandmarkAnalyzer.calculate_distances
calculate_distances(landmarks) ==
  LET left_eye == Rows(landmarks, engine_feature_indices.left_eye)
      right_eye == Rows(landmarks, engine_feature_indices.right_eye)
      nose_tip == landmarks[engine_feature_indices.nose_tip]
      nose_bridge_top == landmarks[engine_feature_indices.nose_bridge[1]]
      mouth_points == Rows(landmarks, engine_feature_indices.mouth)
  IN  [ left_eye_width |-> _point_distance(left_eye[1], left_eye[Len(left_eye)]),
        right_eye_width |->
          _point_distance(right_eye[1], right_eye[Len(right_eye)]),
        eye_separation |-> _point_distance(VMean(left_eye), VMean(right_eye)),
        nose_height |-> _point_distance(nose_tip, nose_bridge_top),
        mouth_width |-> _point_distance(mouth_points[1], mouth_points[2]) ]

\* LandmarkAnalyzer.calculate_ratios: the distances are Python floats, and
\* the quotient of two Python floats raises when the divisor is 0
calculate_ratios(landmarks) ==
  LET distances == calculate_distances(landmarks)
  IN  IF distances.right_eye_width = Zero \/ distances.mouth_width = Zero
      THEN [raised |-> "ZeroDivisionError"]
      ELSE [ eye_width_ratio |->
               RDiv(distances.left_eye_width, distances.right_eye_width),
             eye_separation_ratio |->
               RDiv(distances.eye_separation, distances.mouth_width),
             nose_mouth_ratio |->
               RDiv(distances.nose_height, distances.mouth_width) ]

\* GeometryAnalyzer.calculate_proportions: the quotients are numpy's
calculate_proportions(landmarks) ==
  LET contour_points == Rows(landmarks, engine_feature_indices.face_contour)
      xs == [k \in 1..Len(contour_points) |-> contour_points[k][1]]
      ys == [k \in 1..Len(contour_points) |-> contour_points[k][2]]
      face_width == RSub(RSeqMax(xs), RSeqMin(xs))
      face_height == RSub(RSeqMax(ys), RSeqMin(ys))
      left_eye == VMean(Rows(landmarks, engine_feature_indices.left_eye))
      right_eye == VMean(Rows(landmarks, engine_feature_indices.right_eye))
      eye_distance == VNorm(VSub(right_eye, left_eye))
      nose_bridge == Rows(landmarks, engine_feature_indices.nose_bridge)
      nose_length == VNorm(VSub(nose_bridge[Len(nose_bridge)], nose_bridge[1]))
      mouth_points == Rows(landmarks, engine_feature_indices.mouth)
      mouth_width == VNorm(VSub(mouth_points[1], mouth_points[2]))
  IN  [ width_height_ratio |-> NpDiv(face_width, face_height),
        eye_spacing_ratio |-> NpDiv(eye_distance, face_width),
        nose_face_ratio |-> NpDiv(nose_length, face_height),
        mouth_face_ratio |-> NpDiv(mouth_width, face_width) ]

\* LandmarkAnalyzer._calculate_facial_midline: <<midpoint, direction>>; the
\* nose bridge of every array of the model has a positive length
_calculate_facial_midline(nose_bridge) ==
  LET direction == VSub(nose_bridge[Len(nose_bridge)], nose_bridge[1])
  IN  <<VScale(VAdd(nose_bridge[Len(nose_bridge)], nose_bridge[1]), Frac(1, 2)),
        VScale(direction, RDiv(One, VNorm(direction)))>>

\* LandmarkAnalyzer._point_set_line_distance
_point_set_line_distance(points, line_point, line_direction) ==
  [ k \in 1..Len(points) |->
      LET projection == VDot(VSub(points[k], line_point), line_direction)
          projected_point == VAdd(line_point, VScale(line_direction, projection))
      IN  VNorm(VSub(points[k], projected_point)) ]

\* LandmarkAnalyzer._calculate_feature_symmetry
_calculate_feature_symmetry(left_points, right_points, midline) ==
  LET left_distances ==
        _point_set_line_distance(left_points, midline[1], midline[2])
      right_distances ==
        _point_set_line_distance(right_points, midline[1], midline[2])
      distance_diff ==
        RMean([k \in 1..Len(left_distances) |->
                 RAbs(RSub(left_distances[k], right_distances[k]))])
      max_distance == RSeqMax(left_distances \o right_distances)
  IN  IF RGt(max_distance, Zero) THEN RDiv(distance_diff, max_distance)
      ELSE Zero

\* LandmarkAnalyzer.analyze_symmetry
analyze_symmetry(landmarks) ==
  LET midline ==
        _calculate_facial_midline(
          Rows(landmarks, engine_feature_indices.nose_bridge))
  IN  [ eye_symmetry |->
          _calculate_feature_symmetry(
            Rows(landmarks, engine_feature_indices.left_eye),
            Rows(landmarks, engine_feature_indices.right_eye), midline),
        eyebrow_symmetry |->
          _calculate_feature_symmetry(
            Rows(landmarks, engine_feature_indices.left_eyebrow),
            Rows(landmarks, engine_feature_indices.right_eyebrow), midline) ]

InitEngine == EngineIdle

EngineInit ==
  InitEngine /\ GateIdle /\ AuthIdle /\ EnrollIdle /\ ExprIdle /\ DepthIdle
    /\ MeshIdle

\* a call calculate_ratios(landmarks)
CalculateRatios ==
  \E id \in EngineLandmarkIds :
    /\ ratios' = [landmarks |-> id,
                  value |-> calculate_ratios(EngineLandmarks(id))]
    /\ UNCHANGED <<proportions, symmetry>>
    /\ UNCHANGED gate_vars
    /\ UNCHANGED auth_vars
    /\ UNCHANGED enroll_vars
    /\ UNCHANGED expr_vars
    /\ UNCHANGED depth_vars
    /\ UNCHANGED mesh_vars

\* a call calculate_proportions(landmarks)
CalculateProportions ==
  \E id \in EngineLandmarkIds :
    /\ proportions' = [landmarks |-> id,
                       value |-> calculate_proportions(EngineLandmarks(id))]
    /\ UNCHANGED <<ratios, symmetry>>
    /\ UNCHANGED gate_vars
    /\ UNCHANGED auth_vars
    /\ UNCHANGED enroll_vars
    /\ UNCHANGED expr_vars
    /\ UNCHANGED depth_vars
    /\ UNCHANGED mesh_vars

\* a call analyze_symmetry(landmarks)
AnalyzeSymmetry ==
  \E id \in EngineLandmarkIds :
    /\ symmetry' = [landmarks |-> id,
                    value |-> analyze_symmetry(EngineLandmarks(id))]
    /\ UNCHANGED <<ratios, proportions>>
    /\ UNCHANGED gate_vars
    /\ UNCHANGED auth_vars
    /\ UNCHANGED enroll_vars
    /\ UNCHANGED expr_vars
    /\ UNCHANGED depth_vars
    /\ UNCHANGED mesh_vars

NextEngine == CalculateRatios \/ CalculateProportions \/ AnalyzeSymmetry

SpecEngine == EngineInit /\ [][NextEngine]_vars

\* ------------------------------------------------------------ engine claims
\* every entry of a ratio dictionary is a finite number
AllFinite(d) ==
  /\ "raised" \notin DOMAIN d
  /\ \A k \in DOMAIN d : Finite(d[k])

\* C22: every ratio of calculate_ratios and of calculate_proportions has
\* its denominator checked: whatever the landmarks, the call returns (no
\* division by zero is raised) and every ratio it returns is finite.
C22_RatiosFinite ==
  /\ ratios # Pending => AllFinite(ratios.value)
  /\ proportions # Pending => AllFinite(proportions.value)

\* a x b
VCross(a, b) ==
  <<RSub(RMul(a[2], b[3]), RMul(a[3], b[2])),
    RSub(RMul(a[3], b[1]), RMul(a[1], b[3])),
    RSub(RMul(a[1], b[2]), RMul(a[2], b[1]))>>

\* the distance of point p to the facial midline of the landmark array: the
\* line through the midpoint of the nose bridge along the bridge
MidlineDistance(landmarks, p) ==
  LET bridge == Rows(landmarks, engine_feature_indices.nose_bridge)
      along == VSub(bridge[2], bridge[1])
      midpoint == VScale(VAdd(bridge[1], bridge[2]), Frac(1, 2))
  IN  RDiv(VNorm(VCross(along, VSub(p, midpoint))), VNorm(along))

\* the mean absolute difference of the left and right distances to the
\* midline, divided by the largest of the distances (0 when all are 0)
NormalisedDifference(landmarks, left, right) ==
  LET l == [k \in 1..Len(left) |-> MidlineDistance(landmarks, landmarks[left[k]])]
      r == [k \in 1..Len(right) |->
              MidlineDistance(landmarks, landmarks[right[k]])]
      largest == RSeqMax(l \o r)
  IN  IF largest = Zero THEN Zero
      ELSE RDiv(RMean([k \in 1..Len(l) |-> RAbs(RSub(l[k], r[k]))]), largest)

\* C23: the symmetry score of a left/right pair (eyes, eyebrows) is 1 minus
\* the normalised mean absolute difference of the left and right distances
\* to the midline, so a pair with identical distances scores 1.
C23_SymmetryScore ==
  symmetry # Pending
    => LET landmarks == EngineLandmarks(symmetry.landmarks)
       IN  /\ symmetry.value.eye_symmetry
                = RSub(One, NormalisedDifference(landmarks,
                              engine_feature_indices.left_eye,
                              engine_feature_indices.right_eye))
           /\ symmetry.value.eyebrow_symmetry
                = RSub(One, NormalisedDifference(landmarks,
                              engine_feature_indices.left_eyebrow,
                              engine_feature_indices.right_eyebrow))

\* ------------------------------------------------------------ configuration
\* C24: a gate whose configuration lacks a required threshold fails at
\* construction, so every gate that exists has all its thresholds and no
\* should_save_frame call fails on a missing one.
C24_ConfigErrorAtConstruction ==
  /\ Complete(thresholds)
  /\ "raised" \notin DOMAIN call

\* ------------------------------------------------------------ mesh generator
\* A mesh is named by <<vertices, faces>>.  The triangulation itself
\* (scipy's Delaunay) is not modelled: the name says which simplices it
\* returned.
VertexSets == {"level", "tilted", "steep"}

\* five vertices over the same ground plan, row 4 halfway between rows 0
\* and 1: on a level plane, on a plane whose normals have length 10, on a
\* plane whose normals have an irrational length
Vertices(v) ==
  LET height == CASE v = "level" -> 0 [] v = "tilted" -> 3 [] v = "steep" -> 4
  IN  [ i \in 0..4 |->
        CASE i = 0 -> <<Zero, Zero, Zero>>
          [] i = 1 -> <<R(2), Zero, Zero>>
          [] i = 2 -> <<Zero, R(4), R(height)>>
          [] i = 3 -> <<R(2), R(4), R(height)>>
          [] i = 4 -> <<One, Zero, Zero>> ]

FaceLists == {"two", "three", "collinear", "repeated"}

\* Mx3 arrays of vertex rows: two or three triangles with an area, and the
\* two triangles with one more whose corners lie on a line, or whose
\* corners are not three different rows
Faces(f) ==
  CASE f = "two" -> << <<0, 1, 2>>, <<1, 3, 2>> >>
    [] f = "three" -> << <<0, 4, 2>>, <<4, 1, 2>>, <<1, 3, 2>> >>
    [] f = "collinear" -> << <<0, 1, 2>>, <<1, 3, 2>>, <<0, 4, 1>> >>
    [] f = "repeated" -> << <<0, 1, 2>>, <<1, 3, 2>>, <<1, 1, 3>> >>

MeshIds == {<<v, f>> : v \in VertexSets, f \in FaceLists}

\* lines 104-106: the cross product of two edges of face k
FaceCross(vertices, faces, k) ==
  LET a == vertices[faces[k][1]]
      b == vertices[faces[k][2]]
      c == vertices[faces[k][3]]
  IN  VCross(VSub(b, a), VSub(c, a))

\* MeshGenerator._calculate_face_metrics; numpy divides each cross product
\* by its norm without looking at the norm
_calculate_face_metrics(vertices, faces) ==
  LET face_normals == [k \in 1..Len(faces) |-> FaceCross(vertices, faces, k)]
      norms == [k \in 1..Len(faces) |-> VNorm(face_normals[k])]
      face_areas == [k \in 1..Len(faces) |-> RDiv(norms[k], R(2))]
  IN  [ areas |-> face_areas,
        normals |->
          [k \in 1..Len(faces) |->
             <<NpDiv(face_normals[k][1], norms[k]),
               NpDiv(face_normals[k][2], norms[k]),
               NpDiv(face_normals[k][3], norms[k])>>],
        mean_area |-> RMean(face_areas),
        total_area |-> RSum(face_areas) ]

\* MeshGenerator._calculate_vertex_metrics
_calculate_vertex_metrics(vertices, faces) ==
  LET vertex_degrees ==
        [i \in DOMAIN vertices |->
           Cardinality({<<k, n>> \in (1..Len(faces)) \X (1..3) :
                          faces[k][n] = i})]
  IN  [ degrees |-> vertex_degrees,
        mean_degree |->
          Frac(SetSum(vertex_degrees, DOMAIN vertices),
               Cardinality(DOMAIN vertices)),
        max_degree |-> SetMax({vertex_degrees[i] : i \in DOMAIN vertices}) ]

\* MeshGenerator.calculate_mesh_metrics
calculate_mesh_metrics ==
  IF mesh = <<>> THEN NoneObj
  ELSE [ face_metrics |->
           _calculate_face_metrics(Vertices(mesh[1]), Faces(mesh[2])),
         vertex_metrics |->
           _calculate_vertex_metrics(Vertices(mesh[1]), Faces(mesh[2])) ]

\* MeshGenerator.__init__
InitMesh == MeshIdle

MeshInit ==
  InitMesh /\ GateIdle /\ AuthIdle /\ EnrollIdle /\ ExprIdle /\ DepthIdle
    /\ EngineIdle

\* MeshGenerator.create_3d_mesh
create_3d_mesh ==
  \E id \in MeshIds :
    /\ mesh' = id
    /\ UNCHANGED mesh_metrics
    /\ UNCHANGED gate_vars
    /\ UNCHANGED auth_vars
    /\ UNCHANGED enroll_vars
    /\ UNCHANGED expr_vars
    /\ UNCHANGED depth_vars
    /\ UNCHANGED engine_vars

\* a call calculate_mesh_metrics()
CalculateMeshMetrics ==
  /\ mesh_metrics' = [mesh |-> mesh, value |-> calculate_mesh_metrics]
  /\ UNCHANGED mesh
  /\ UNCHANGED gate_vars
  /\ UNCHANGED auth_vars
  /\ UNCHANGED enroll_vars
  /\ UNCHANGED expr_vars
  /\ UNCHANGED depth_vars
  /\ UNCHANGED engine_vars

NextMesh == create_3d_mesh \/ CalculateMeshMetrics

SpecMesh == MeshInit /\ [][NextMesh]_vars

\* ------------------------------------------------------------ mesh claims
\* calculate_mesh_metrics has returned the metrics of a mesh
Measured == mesh_metrics # Pending /\ mesh_metrics.mesh # <<>>

MeasuredVertices == Vertices(mesh_metrics.mesh[1])

MeasuredFaces == Faces(mesh_metrics.mesh[2])

\* face k of the measured mesh has no area: its corners lie on one line
Degenerate(k) ==
  FaceCross(MeasuredVertices, MeasuredFaces, k) = <<Zero, Zero, Zero>>

\* the area and the unit normal of a face that has an area
AreaOf(k) ==
  RDiv(VNorm(FaceCross(MeasuredVertices, MeasuredFaces, k)), R(2))

UnitNormalOf(k) ==
  LET n == FaceCross(MeasuredVertices, MeasuredFaces, k)
  IN  VScale(n, RDiv(One, VNorm(n)))

\* C25: for a mesh with a degenerate triangle, the metrics do not hold the
\* quotient of a division by the zero norm: the normal of that face is an
\* explicit undefined value (None) or the call fails; its area is 0, and
\* every other face has its own area and unit normal.
C25_DegenerateFaceReported ==
  (Measured /\ \E k \in 1..Len(MeasuredFaces) : Degenerate(k))
    => \/ "raised" \in DOMAIN mesh_metrics.value
       \/ \A k \in 1..Len(MeasuredFaces) :
            LET metrics == mesh_metrics.value.face_metrics
            IN  IF Degenerate(k)
                THEN /\ metrics.areas[k] = Zero
                     /\ metrics.normals[k] = NoneObj
                ELSE /\ metrics.areas[k] = AreaOf(k)
                     /\ metrics.normals[k] = UnitNormalOf(k)

\* ------------------------------------------------------------ gate memory
\* The observation differs from the reference observation beyond a
\* threshold: in the mean landmark displacement, in an expression metric
\* the configuration names, or in a pose axis when both poses exist.
Differs(landmarks_array, head_pose, ref_landmarks, ref_pose) ==
  \/ RGt(LandmarkChange[landmarks_array, ref_landmarks],
         thresholds.LANDMARK_CHANGE_THRESHOLD)
  \/ \E k \in DOMAIN thresholds.EXPRESSION_METRICS
            \cap DOMAIN ExpressionChange[landmarks_array, ref_landmarks] :
       RGt(ExpressionChange[landmarks_array, ref_landmarks][k],
           thresholds.EXPRESSION_METRICS[k])
  \/ /\ ref_pose # None
     /\ head_pose # None
     /\ \E k \in Axes :
          Abs(Pose(head_pose)[k] - Pose(ref_pose)[k])
            > thresholds.HEAD_POSE_THRESHOLD[k]

\* C26: differences are measured against the last admitted observation,
\* never against the last observed one: an observation that stays within
\* every threshold of its immediate predecessor, and passes the rate limit
\* and the capacity check, is admitted exactly when it differs beyond a
\* threshold from the last admitted observation.
C26_MeasuredAgainstLastAdmitted ==
  [][ (/\ IsCall
       /\ call # NoCall
       /\ last_admitted.landmarks # None
       /\ ~rate_limited(now)
       /\ ~at_capacity
       /\ ~Differs(call'.landmarks, call'.head_pose,
                   call.landmarks, call.head_pose))
      => (call'.ret <=>
            Differs(call'.landmarks, call'.head_pose,
                    last_admitted.landmarks, last_admitted.head_pose)) ]_vars

\* a frame within every threshold of the admitted one has been shown and
\* rejected, the interval has passed and there is room: the next frame of
\* the drift, within every threshold of the rejected frame and beyond one
\* from the admitted frame, is due
C26_Witness ==
  /\ frame_count = 1
  /\ last_admitted.landmarks = "F0"
  /\ call.landmarks = "F1"
  /\ ~call.ret
  /\ call.head_pose = last_admitted.head_pose
  /\ ~rate_limited(now)
  /\ ~at_capacity
  /\ ~Differs("F2", call.head_pose, "F1", call.head_pose)
  /\ Differs("F2", call.head_pose, "F0", last_admitted.head_pose)
  /\ Decision("F2", call.head_pose)

\* C27: the pose trigger needs both poses.  An observation admitted after
\* the first, when its pose or the last admitted pose is absent, differs in
\* its landmarks or its expression beyond a threshold (the pose did not
\* admit it); and after an admission without a pose the stored last pose is
\* absent.
C27_PoseTriggerNeedsBothPoses ==
  /\ [][ (/\ IsCall
          /\ call'.ret
          /\ last_admitted.landmarks # None
          /\ (call'.head_pose = None \/ last_admitted.head_pose = None))
         => Differs(call'.landmarks, None, last_admitted.landmarks, None) ]_vars
  /\ []((last_admitted.landmarks # None /\ last_admitted.head_pose = None)
          => last_pose = None)

\* after an admission without a pose, an observation with the same
\* landmarks and a pose of 30 degrees yaw passed the rate limit and the
\* capacity check and was rejected
C27_Witness ==
  /\ thresholds = Settings(MaxFrames)
  /\ last_admitted.landmarks # None
  /\ last_admitted.head_pose = None
  /\ call.landmarks = last_admitted.landmarks
  /\ call.head_pose = "P2"
  /\ ~call.ret
  /\ ~rate_limited(now)
  /\ ~at_capacity

\* ------------------------------------------------------------ score maps
\* the geometry and pose sections of the details verify_biometric returned
Detailed ==
  /\ result # Pending
  /\ "info" \in DOMAIN result
  /\ "details" \in DOMAIN result.info

\* the score of one pose axis, lines 157-160
AxisScore(axis) ==
  RMax(Zero,
       RSub(One,
            RDiv(RAbs(RSub(current_data.pose[axis], profile.pose[axis].mean)),
                 tolerance_thresholds[axis])))

\* the score of one geometry metric, lines 131-140
MetricScore(metric) ==
  geometry_match_score(current_data.geometry[metric],
                       profile.geometry[metric].mean,
                       Get(tolerance_thresholds, metric, Frac(1, 10)))

\* C28: in the details verify_biometric returns, metric_scores has an entry
\* for exactly the profile metrics the live data has, each the score of its
\* own metric, and axis_scores likewise for the pose axes.
C28_ScoresKeyedByOwnMetric ==
  Detailed =>
    LET details == result.info.details
    IN  /\ "metric_scores" \in DOMAIN details.geometry =>
             LET metric_scores == details.geometry.metric_scores
             IN  /\ DOMAIN metric_scores
                      = DOMAIN profile.geometry \cap DOMAIN current_data.geometry
                 /\ \A metric \in DOMAIN metric_scores
                         \cap DOMAIN current_data.geometry :
                      metric_scores[metric] = MetricScore(metric)
        /\ "axis_scores" \in DOMAIN details.pose =>
             LET axis_scores == details.pose.axis_scores
             IN  /\ DOMAIN axis_scores
                      = DOMAIN profile.pose \cap DOMAIN current_data.pose
                 /\ \A axis \in DOMAIN axis_scores
                         \cap DOMAIN current_data.pose :
                      axis_scores[axis] = AxisScore(axis)

\* ------------------------------------------------------------ idle and armed
\* C29: frame_count is 0, last_landmarks is absent and last_save_time is
\* absent together or not at all; frame_count never decreases, so an armed
\* gate stays armed; and the gate leaves the idle state exactly by its
\* first admission, which makes frame_count 1.
C29_IdleOrArmed ==
  /\ [](/\ (frame_count = 0) <=> (last_landmarks = None)
        /\ (frame_count = 0) <=> (last_save_time = NoTime))
  /\ [][frame_count' >= frame_count]_vars
  /\ [][(frame_count = 0 /\ frame_count' # 0)
          => (IsCall /\ call'.ret /\ frame_count' = 1)]_vars
  /\ [][(frame_count = 0 /\ IsCall /\ call'.ret) => frame_count' = 1]_vars

\* a gate that admitted twice, at different times, and then rejected an
\* observation: it is armed in all three respects
C29_Witness ==
  /\ frame_count = 2
  /\ last_landmarks # None
  /\ last_save_time # NoTime
  /\ first_obs_time # last_save_time
  /\ call # NoCall
  /\ ~call.ret

\* ------------------------------------------------------ profile statistics
\* C30: in every profile create_biometric_profile returns, the mean, std,
\* min and max of each geometry metric are those of the values of all
\* geometry frames of the session, so min <= mean <= max and
\* 0 <= std <= max - min; and for each pose axis the mean is that of all
\* pose frames and the range is their max minus their min.
C30_StatisticsOfSameFrames ==
  Built =>
    /\ enrolled.geometry # NoneObj =>
         \A metric \in DOMAIN enrolled.geometry :
           LET values == ColumnOf("geometry", metric)
               stat == enrolled.geometry[metric]
           IN  /\ stat.mean = RMean(values)
               /\ stat.std = RStd(values)
               /\ stat.min = RSeqMin(values)
               /\ stat.max = RSeqMax(values)
               /\ RLe(stat.min, stat.mean)
               /\ RLe(stat.mean, stat.max)
               /\ RGe(stat.std, Zero)
               /\ RLe(stat.std, RSub(stat.max, stat.min))
    /\ enrolled.pose # NoneObj =>
         \A axis \in DOMAIN enrolled.pose :
           LET values == ColumnOf("pose", axis)
               stat == enrolled.pose[axis]
           IN  /\ stat.mean = RMean(values)
               /\ stat.range = RSub(RSeqMax(values), RSeqMin(values))
               /\ RLe(RSeqMin(values), stat.mean)
               /\ RLe(stat.mean, RSeqMax(values))

\* a profile of two different geometry frames and two different pose
\* frames: eye_distance 100 and 104 give min 100 < mean 102 < max 104 and
\* std 2 < 4, roll -5 and -3 give mean -4 and range 2
C30_Witness ==
  /\ Built
  /\ Len(FramesOf("geometry")) = 2
  /\ "eye_distance" \in DOMAIN enrolled.geometry
  /\ enrolled.geometry.eye_distance
       = [mean |-> R(102), std |-> R(2), min |-> R(100), max |-> R(104)]
  /\ Len(FramesOf("pose")) = 2
  /\ enrolled.pose.roll.mean = R(-4)
  /\ enrolled.pose.roll.range = R(2)
====
